---- MODULE Spec2Model ----
(***************************************************************************)
(* docql: a document-query builder, its structural validation and its     *)
(* four renderers (MongoDB, DynamoDB, Firestore, CouchDB).                 *)
(*                                                                         *)
(* A Builder is the pair (ast, err).  Every chained method is an operator  *)
(* from a builder (and the call's arguments) to the builder after the     *)
(* call; every action of the specification applies one method to the      *)
(* builder held in the variable builder.                                  *)
(***************************************************************************)
EXTENDS Integers, Sequences, FiniteSets, TLC

VARIABLES
    builder,   \* the Builder: [ast |-> DocumentAST, err |-> error]
    built,     \* what the caller holds from its latest Build(): <<>> or <<[ast, err]>>
    results,    \* what each Render() so far returned, oldest first
    validated, \* what Validate() returned for the struct literal: <<>> or <<err>>
    direct,    \* a DocumentAST the caller wrote as a struct literal: <<>> or <<ast>>
    ncalls,    \* number of Builder method calls made so far
    last,      \* the call made last: [name |-> method, args |-> its arguments]
    session,   \* what the caller is doing: "chain", "write", "literal", "probe", "param",
               \* "deep", "race" or "renders"
    made,      \* what the latest P() or TryP() returned: <<>> or <<[name, param, err, panic]>>
    instance,  \* the DOCQL instance: [collections |-> ..., fields |-> ...]
    found,     \* what the latest TryC() or TryF() returned: <<>> or
               \* <<[coll, name, value, err]>>
    procs      \* the goroutines at work on the shared Builder or AST, one record each

vars == <<builder, built, results, validated, direct, ncalls, last, session, made, instance, found, procs>>

-----------------------------------------------------------------------------
(* Bounds of the model *)

MaxCalls == 2

\* Calls of a caller that only uses the methods of a write (Filter, Document,
\* Documents, Set) and Build.
MaxWriteCalls == 3

\* Render calls of one caller.
MaxRenders == 2

\* Range statements over Go maps whose orders are chosen independently in one
\* Render; a later range statement repeats the order of an earlier one.
MaxRanges == 2

\* The longest name of which every spelling is given to P and TryP.
MaxNameLen == 2
MaxDeepCalls == 14

-----------------------------------------------------------------------------
(* Go values *)

\* A nil error; every non-nil error is its message.
NilErr == "<nil>"

\* A pointer is <<>> (nil) or <<x>> (a pointer to x).
NilPtr == <<>>
Ptr(x) == <<x>>

\* The nil FilterItem interface value.
NilFilterItem == [kind |-> "nil"]

\* The nil Expression interface value.
NilExpression == [kind |-> "nil"]

\* An empty Go map.
EmptyMap == [x \in {} |-> x]

\* m[k] = v on a Go map.
MapSet(m, k, v) == (k :> v) @@ m

SeqMin(S) == CHOOSE x \in S : \A y \in S : x <= y

-----------------------------------------------------------------------------
(* internal/types: operators and limits *)

OpFind       == "FIND"
OpFindOne    == "FIND_ONE"
OpInsert     == "INSERT"
OpInsertMany == "INSERT_MANY"
OpUpdate     == "UPDATE"
OpUpdateMany == "UPDATE_MANY"
OpDelete     == "DELETE"
OpDeleteMany == "DELETE_MANY"
OpAggregate  == "AGGREGATE"
OpCount      == "COUNT"
OpDistinct   == "DISTINCT"

Operations == {OpFind, OpFindOne, OpInsert, OpInsertMany, OpUpdate, OpUpdateMany,
               OpDelete, OpDeleteMany, OpAggregate, OpCount, OpDistinct}

OpEQ == "$eq"
OpNE == "$ne"
OpGTE == "$gte"
OpLT == "$lt"
OpLTE == "$lte"
OpIN == "$in"
OpNotIn == "$nin"
OpExists == "$exists"
OpRegex == "$regex"
OpAll == "$all"
OpGT == "$gt"
OpType == "$type"
OpText == "$text"
OpMod == "$mod"
OpElemMatch == "$elemMatch"
OpSize == "$size"
OpGeoWithin == "$geoWithin"
OpGeoIntersects == "$geoIntersects"
OpNear == "$near"
OpNearSphere == "$nearSphere"

\* Every FilterOperator constant.
FilterOperators ==
    {OpEQ, OpNE, OpGT, OpGTE, OpLT, OpLTE, OpIN, OpNotIn, OpExists, OpType,
     OpRegex, OpText, OpMod, OpAll, OpElemMatch, OpSize, OpGeoWithin,
     OpGeoIntersects, OpNear, OpNearSphere}

LogicAND == "$and"
LogicOR  == "$or"
LogicNOR == "$nor"
LogicNOT == "$not"

UpdateSet      == "$set"
UpdateUnset    == "$unset"
UpdateInc      == "$inc"
UpdateMul      == "$mul"
UpdateAddToSet == "$addToSet"
UpdatePull     == "$pull"
UpdatePush     == "$push"
UpdateSetOnInsert == "$setOnInsert"
UpdateMin         == "$min"
UpdateMax         == "$max"
UpdateRename      == "$rename"
UpdateCurrentDate == "$currentDate"
UpdatePop         == "$pop"
UpdatePullAll     == "$pullAll"

\* Every UpdateOperator constant.
UpdateOperators ==
    {UpdateSet, UpdateUnset, UpdateSetOnInsert, UpdateInc, UpdateMul, UpdateMin,
     UpdateMax, UpdateRename, UpdateCurrentDate, UpdateAddToSet, UpdatePop,
     UpdatePull, UpdatePush, UpdatePullAll}

Ascending  == 1
Descending == -1

MaxFilterDepth      == 10
MaxBatchSize        == 1000
MaxLimit            == 10000
MaxProjectionFields == 100
MaxSortFields       == 10
MaxPipelineStages   == 50

-----------------------------------------------------------------------------
(* internal/types: the AST *)

Collection(name) == [Name |-> name]
Field(path, coll) == [Path |-> path, Collection |-> coll]
Param(name) == [Name |-> name]

FilterCondition(field, op, value) ==
    [kind |-> "FilterCondition", Field |-> field, Operator |-> op, Value |-> value]

FilterGroup(logic, conditions) ==
    [kind |-> "FilterGroup", Logic |-> logic, Conditions |-> conditions]

ProjectionField(field, include) ==
    [Field |-> field, Include |-> include, Slice |-> NilPtr, ElemMatch |-> NilPtr]

Projection(fields, exclude) == [Fields |-> fields, Exclude |-> exclude]

SortClause(field, order) == [Field |-> field, Order |-> order]

PaginationValue(static, param) == [Static |-> static, Param |-> param]

UpdateOperation(op, fields) == [Operator |-> op, Fields |-> fields]

DocumentOf(fields) == [Fields |-> fields]

MatchStage(filter) == [kind |-> "MatchStage", Filter |-> filter]

ProjectStage(proj, computed) ==
    [kind |-> "ProjectStage", Projection |-> proj, Computed |-> computed]

GroupStage(id, accumulators) ==
    [kind |-> "GroupStage", ID |-> id, Accumulators |-> accumulators]

UnwindStage(path) ==
    [kind |-> "UnwindStage", Path |-> path, IncludeArrayIndex |-> NilPtr,
     PreserveNullAndEmptyArrays |-> FALSE]

LookupStage(from, localField, foreignField, as) ==
    [kind |-> "LookupStage", From |-> from, LocalField |-> localField,
     ForeignField |-> foreignField, As |-> as, Pipeline |-> <<>>, Let |-> EmptyMap]

CountStage(fieldName) == [kind |-> "CountStage", FieldName |-> fieldName]

SortStage(sorts) == [kind |-> "SortStage", Sorts |-> sorts]

LimitStage(limit) == [kind |-> "LimitStage", Limit |-> limit]

SkipStage(skip) == [kind |-> "SkipStage", Skip |-> skip]

AddFieldsStage(fields) == [kind |-> "AddFieldsStage", Fields |-> fields]

ReplaceRootStage(newRoot) == [kind |-> "ReplaceRootStage", NewRoot |-> newRoot]

FacetStage(facets) == [kind |-> "FacetStage", Facets |-> facets]

BucketStage(groupBy, boundaries) ==
    [kind |-> "BucketStage", GroupBy |-> groupBy, Boundaries |-> boundaries,
     Default |-> NilPtr, Output |-> EmptyMap]

FieldExpression(field) == [kind |-> "FieldExpression", Field |-> field]

Accumulator(op, expr) == [Operator |-> op, Expr |-> expr]

AccSum == "$sum"

\* The zero DocumentAST with Operation and Target set.
DocumentAST(op, c) ==
    [Operation     |-> op,
     Target        |-> c,
     FilterClause  |-> NilFilterItem,
     Projection    |-> NilPtr,
     SortClauses   |-> <<>>,
     Skip          |-> NilPtr,
     Limit         |-> NilPtr,
     Documents     |-> <<>>,
     UpdateOps     |-> <<>>,
     Upsert        |-> FALSE,
     Pipeline      |-> <<>>,
     DistinctField |-> NilPtr]

-----------------------------------------------------------------------------
(* filter helpers *)

Eq(field, value) == FilterCondition(field, OpEQ, value)
Gt(field, value) == FilterCondition(field, OpGT, value)
And(conditions) == FilterGroup(LogicAND, conditions)
Or(conditions) == FilterGroup(LogicOR, conditions)
Nor(conditions) == FilterGroup(LogicNOR, conditions)

Exists(field) == [kind |-> "ExistsFilter", Field |-> field, Exists |-> TRUE]

Regex(field, pattern) ==
    [kind |-> "RegexFilter", Field |-> field, Pattern |-> pattern, Options |-> NilPtr]

Range(field, minVal, maxVal) ==
    [kind |-> "RangeFilter", Field |-> field, Min |-> minVal, Max |-> maxVal,
     MinExclusive |-> FALSE, MaxExclusive |-> FALSE]

Geo(field, lon, lat, radius) ==
    [kind |-> "GeoFilter", Field |-> field, Operator |-> OpNear,
     Center |-> [Lon |-> lon, Lat |-> lat], Radius |-> Ptr(radius),
     MaxDistance |-> NilPtr, MinDistance |-> NilPtr]

All(field, value) ==
    [kind |-> "ArrayFilter", Field |-> field, Operator |-> OpAll, Value |-> value]

Size(field, value) ==
    [kind |-> "ArrayFilter", Field |-> field, Operator |-> OpSize, Value |-> value]

ElemMatch(field, conditions) ==
    [kind |-> "ElemMatchFilter", Field |-> field, Conditions |-> conditions]

TextSearch(search) ==
    [kind |-> "TextSearchFilter", Search |-> search, Language |-> NilPtr,
     CaseSensitive |-> FALSE, DiacriticSensitive |-> FALSE]

-----------------------------------------------------------------------------
(* Structural validation *)

RECURSIVE validateFilterDepth(_, _)
validateFilterDepth_AtMaximum(f, depth) ==
    IF depth >= MaxFilterDepth
    THEN "filter nesting exceeds maximum depth: " \o ToString(depth)
             \o " > " \o ToString(MaxFilterDepth)
    ELSE LET children == IF f.kind \in {"FilterGroup", "ElemMatchFilter"}
                         THEN f.Conditions ELSE <<>>
             errs == [i \in DOMAIN children |->
                         validateFilterDepth(children[i], depth + 1)]
             bad  == {i \in DOMAIN children : errs[i] # NilErr}
         IN  IF bad = {} THEN NilErr ELSE errs[SeqMin(bad)]

validateFilterDepth(f, depth) ==
    IF depth > MaxFilterDepth
    THEN "filter nesting exceeds maximum depth: " \o ToString(depth)
             \o " > " \o ToString(MaxFilterDepth)
    ELSE LET children == IF f.kind \in {"FilterGroup", "ElemMatchFilter"}
                         THEN f.Conditions ELSE <<>>
             errs == [i \in DOMAIN children |->
                         validateFilterDepth(children[i], depth + 1)]
             bad  == {i \in DOMAIN children : errs[i] # NilErr}
         IN  IF bad = {} THEN NilErr ELSE errs[SeqMin(bad)]

\* validateFind refusing the limit MaxLimit itself.
validateFind_OffByOne(ast) ==
    IF ast.Limit # NilPtr /\ ast.Limit[1].Static # NilPtr
          /\ ast.Limit[1].Static[1] >= MaxLimit
    THEN "limit exceeds maximum: " \o ToString(ast.Limit[1].Static[1])
             \o " > " \o ToString(MaxLimit)
    ELSE NilErr

validateFind(ast) ==
    IF ast.Limit # NilPtr /\ ast.Limit[1].Static # NilPtr
          /\ ast.Limit[1].Static[1] > MaxLimit
    THEN "limit exceeds maximum: " \o ToString(ast.Limit[1].Static[1])
             \o " > " \o ToString(MaxLimit)
    ELSE IF ast.Projection # NilPtr
              /\ Len(ast.Projection[1].Fields) > MaxProjectionFields
    THEN "projection fields exceed maximum: "
             \o ToString(Len(ast.Projection[1].Fields))
             \o " > " \o ToString(MaxProjectionFields)
    ELSE IF Len(ast.SortClauses) > MaxSortFields
    THEN "sort fields exceed maximum: " \o ToString(Len(ast.SortClauses))
             \o " > " \o ToString(MaxSortFields)
    ELSE IF ast.FilterClause # NilFilterItem
    THEN validateFilterDepth(ast.FilterClause, 0)
    ELSE NilErr

validateInsert(ast) ==
    IF Len(ast.Documents) # 1
    THEN "INSERT requires exactly one document"
    ELSE NilErr

\* validateInsertMany without the batch bound.
validateInsertMany_NoBatchBound(ast) ==
    IF Len(ast.Documents) = 0
    THEN "INSERT_MANY requires at least one document"
    ELSE NilErr

validateInsertMany(ast) ==
    IF Len(ast.Documents) = 0
    THEN "INSERT_MANY requires at least one document"
    ELSE IF Len(ast.Documents) > MaxBatchSize
    THEN "batch size exceeds maximum: " \o ToString(Len(ast.Documents))
             \o " > " \o ToString(MaxBatchSize)
    ELSE NilErr

validateUpdate(ast) ==
    IF Len(ast.UpdateOps) = 0
    THEN "UPDATE requires at least one update operation"
    ELSE NilErr

validateUpdateMany_NeedsCondition(ast) ==
    IF Len(ast.UpdateOps) = 0
    THEN "UPDATE_MANY requires at least one update operation"
    ELSE IF ast.FilterClause = NilFilterItem
            \/ (ast.FilterClause.kind = "FilterGroup" /\ ast.FilterClause.Conditions = <<>>)
    THEN "UPDATE_MANY requires a filter for safety"
    ELSE NilErr

validateUpdateMany(ast) ==
    IF Len(ast.UpdateOps) = 0
    THEN "UPDATE_MANY requires at least one update operation"
    ELSE IF ast.FilterClause = NilFilterItem
    THEN "UPDATE_MANY requires a filter for safety"
    ELSE NilErr

validateDelete(ast) == NilErr

\* validateDeleteMany accepting what validateDelete accepts.
validateDeleteMany_NoFilterRule(ast) == NilErr

validateDeleteMany(ast) ==
    IF ast.FilterClause = NilFilterItem
    THEN "DELETE_MANY requires a filter for safety"
    ELSE NilErr

validateAggregate(ast) ==
    IF Len(ast.Pipeline) = 0
    THEN "AGGREGATE requires at least one pipeline stage"
    ELSE IF Len(ast.Pipeline) > MaxPipelineStages
    THEN "pipeline stages exceed maximum: " \o ToString(Len(ast.Pipeline))
             \o " > " \o ToString(MaxPipelineStages)
    ELSE NilErr

validateCount(ast) == NilErr

validateDistinct(ast) ==
    IF ast.DistinctField = NilPtr
    THEN "DISTINCT requires a field"
    ELSE NilErr

Validate(ast) ==
    IF ast.Target.Name = "" THEN "target collection is required"
    ELSE CASE ast.Operation \in {OpFind, OpFindOne} -> validateFind(ast)
           [] ast.Operation = OpInsert     -> validateInsert(ast)
           [] ast.Operation = OpInsertMany -> validateInsertMany(ast)
           [] ast.Operation = OpUpdate     -> validateUpdate(ast)
           [] ast.Operation = OpUpdateMany -> validateUpdateMany(ast)
           [] ast.Operation = OpDelete     -> validateDelete(ast)
           [] ast.Operation = OpDeleteMany -> validateDeleteMany(ast)
           [] ast.Operation = OpAggregate  -> validateAggregate(ast)
           [] ast.Operation = OpCount      -> validateCount(ast)
           [] ast.Operation = OpDistinct   -> validateDistinct(ast)
           [] OTHER -> "unsupported operation: " \o ast.Operation

-----------------------------------------------------------------------------
(* The Builder *)

Builder(ast) == [ast |-> ast, err |-> NilErr]

Find(c)       == Builder(DocumentAST(OpFind, c))
FindOne(c)    == Builder(DocumentAST(OpFindOne, c))
Insert(c)     == Builder(DocumentAST(OpInsert, c))
InsertMany(c) == Builder(DocumentAST(OpInsertMany, c))
Update(c)     == Builder(DocumentAST(OpUpdate, c))
UpdateMany(c) == Builder(DocumentAST(OpUpdateMany, c))
Delete(c)     == Builder(DocumentAST(OpDelete, c))
DeleteMany(c) == Builder(DocumentAST(OpDeleteMany, c))
Aggregate(c)  == Builder(DocumentAST(OpAggregate, c))
Count(c)      == Builder(DocumentAST(OpCount, c))
Distinct(c, field) ==
    Builder([DocumentAST(OpDistinct, c) EXCEPT !.DistinctField = Ptr(field)])

isReadOperation(b) ==
    b.ast.Operation \in {OpFind, OpFindOne, OpAggregate, OpCount, OpDistinct}

isUpdateOperation(b) ==
    b.ast.Operation \in {OpUpdate, OpUpdateMany}

\* Filter without the sticky-error guard.
Filter_NoErrGuard(b, f) ==
    IF b.ast.FilterClause = NilFilterItem
    THEN [b EXCEPT !.ast.FilterClause = f]
    ELSE [b EXCEPT !.ast.FilterClause =
                      FilterGroup(LogicAND, <<b.ast.FilterClause, f>>)]

\* Filter appending to a group that is already an AND group.
Filter_Flattening(b, f) ==
    IF b.err # NilErr THEN b
    ELSE IF b.ast.FilterClause = NilFilterItem
    THEN [b EXCEPT !.ast.FilterClause = FilterGroup(LogicAND, <<f>>)]
    ELSE [b EXCEPT !.ast.FilterClause.Conditions = Append(@, f)]

\* Filter keeping the filter the builder already holds.
Filter_KeepsFirst(b, f) ==
    IF b.err # NilErr THEN b
    ELSE IF b.ast.FilterClause = NilFilterItem
    THEN [b EXCEPT !.ast.FilterClause = f]
    ELSE b

Filter(b, f) ==
    IF b.err # NilErr THEN b
    ELSE IF b.ast.FilterClause = NilFilterItem
    THEN [b EXCEPT !.ast.FilterClause = f]
    ELSE [b EXCEPT !.ast.FilterClause =
                      FilterGroup(LogicAND, <<b.ast.FilterClause, f>>)]

Where(b, f) == Filter(b, f)

Select(b, fields) ==
    IF b.err # NilErr THEN b
    ELSE IF ~(isReadOperation(b))
    THEN [b EXCEPT !.err = "Select() can only be used with read operations"]
    ELSE [b EXCEPT !.ast.Projection =
             Ptr(Projection([i \in DOMAIN fields |->
                                ProjectionField(fields[i], TRUE)], FALSE))]

Exclude(b, fields) ==
    IF b.err # NilErr THEN b
    ELSE IF ~(isReadOperation(b))
    THEN [b EXCEPT !.err = "Exclude() can only be used with read operations"]
    ELSE [b EXCEPT !.ast.Projection =
             Ptr(Projection([i \in DOMAIN fields |->
                                ProjectionField(fields[i], FALSE)], TRUE))]

Sort(b, field, order) ==
    IF b.err # NilErr THEN b
    ELSE IF ~(isReadOperation(b))
    THEN [b EXCEPT !.err = "Sort() can only be used with read operations"]
    ELSE [b EXCEPT !.ast.SortClauses = Append(@, SortClause(field, order))]

SortAsc(b, field) == Sort(b, field, Ascending)

SortDesc(b, field) == Sort(b, field, Descending)

Skip(b, n) ==
    IF b.err # NilErr THEN b
    ELSE IF ~(isReadOperation(b))
    THEN [b EXCEPT !.err = "Skip() can only be used with read operations"]
    ELSE [b EXCEPT !.ast.Skip = Ptr(PaginationValue(Ptr(n), NilPtr))]

SkipParam(b, p) ==
    IF b.err # NilErr THEN b
    ELSE IF ~(isReadOperation(b))
    THEN [b EXCEPT !.err = "SkipParam() can only be used with read operations"]
    ELSE [b EXCEPT !.ast.Skip = Ptr(PaginationValue(NilPtr, Ptr(p)))]

Limit(b, n) ==
    IF b.err # NilErr THEN b
    ELSE IF ~(isReadOperation(b))
    THEN [b EXCEPT !.err = "Limit() can only be used with read operations"]
    ELSE IF n > MaxLimit
    THEN [b EXCEPT !.err = "limit exceeds maximum: " \o ToString(n)
                               \o " > " \o ToString(MaxLimit)]
    ELSE [b EXCEPT !.ast.Limit = Ptr(PaginationValue(Ptr(n), NilPtr))]

LimitParam(b, p) ==
    IF b.err # NilErr THEN b
    ELSE IF ~(isReadOperation(b))
    THEN [b EXCEPT !.err = "LimitParam() can only be used with read operations"]
    ELSE [b EXCEPT !.ast.Limit = Ptr(PaginationValue(NilPtr, Ptr(p)))]

Document(b, doc) ==
    IF b.err # NilErr THEN b
    ELSE IF ~(b.ast.Operation = OpInsert \/ b.ast.Operation = OpInsertMany)
    THEN [b EXCEPT !.err = "Document() can only be used with INSERT operations"]
    ELSE [b EXCEPT !.ast.Documents = Append(@, doc)]

\* Documents with the guard of Document.
Documents_GuardOfDocument(b, docs) ==
    IF b.err # NilErr THEN b
    ELSE IF ~(b.ast.Operation = OpInsert \/ b.ast.Operation = OpInsertMany)
    THEN [b EXCEPT !.err = "Documents() can only be used with INSERT_MANY"]
    ELSE [b EXCEPT !.ast.Documents = @ \o docs]

Documents(b, docs) ==
    IF b.err # NilErr THEN b
    ELSE IF ~(b.ast.Operation = OpInsertMany)
    THEN [b EXCEPT !.err = "Documents() can only be used with INSERT_MANY"]
    ELSE [b EXCEPT !.ast.Documents = @ \o docs]

\* addOrMergeUpdate without the merge: always a new operation.
addOrMergeUpdate_AlwaysAppend(b, op, field, value) ==
    [b EXCEPT !.ast.UpdateOps =
                 Append(@, UpdateOperation(op, MapSet(EmptyMap, field, value)))]

\* Merge into the first UpdateOperation of the operator, or append a new one.
addOrMergeUpdate(b, op, field, value) ==
    LET ops  == b.ast.UpdateOps
        same == {i \in DOMAIN ops : ops[i].Operator = op}
    IN  IF same # {}
        THEN [b EXCEPT !.ast.UpdateOps[SeqMin(same)].Fields = MapSet(@, field, value)]
        ELSE [b EXCEPT !.ast.UpdateOps =
                          Append(@, UpdateOperation(op, MapSet(EmptyMap, field, value)))]

Set(b, field, value) ==
    IF b.err # NilErr THEN b
    ELSE IF ~(isUpdateOperation(b))
    THEN [b EXCEPT !.err = "Set() can only be used with UPDATE operations"]
    ELSE addOrMergeUpdate(b, UpdateSet, field, value)

RECURSIVE unsetEach(_, _)
unsetEach(b, fields) ==
    IF fields = <<>> THEN b
    ELSE unsetEach(addOrMergeUpdate(b, UpdateUnset, Head(fields), Param("")),
                   Tail(fields))

Unset(b, fields) ==
    IF b.err # NilErr THEN b
    ELSE IF ~(isUpdateOperation(b))
    THEN [b EXCEPT !.err = "Unset() can only be used with UPDATE operations"]
    ELSE unsetEach(b, fields)

Inc(b, field, value) ==
    IF b.err # NilErr THEN b
    ELSE IF ~(isUpdateOperation(b))
    THEN [b EXCEPT !.err = "Inc() can only be used with UPDATE operations"]
    ELSE addOrMergeUpdate(b, UpdateInc, field, value)

Mul(b, field, value) ==
    IF b.err # NilErr THEN b
    ELSE IF ~(isUpdateOperation(b))
    THEN [b EXCEPT !.err = "Mul() can only be used with UPDATE operations"]
    ELSE addOrMergeUpdate(b, UpdateMul, field, value)

Push(b, field, value) ==
    IF b.err # NilErr THEN b
    ELSE IF ~(isUpdateOperation(b))
    THEN [b EXCEPT !.err = "Push() can only be used with UPDATE operations"]
    ELSE addOrMergeUpdate(b, UpdatePush, field, value)

Pull(b, field, value) ==
    IF b.err # NilErr THEN b
    ELSE IF ~(isUpdateOperation(b))
    THEN [b EXCEPT !.err = "Pull() can only be used with UPDATE operations"]
    ELSE addOrMergeUpdate(b, UpdatePull, field, value)

AddToSet(b, field, value) ==
    IF b.err # NilErr THEN b
    ELSE IF ~(isUpdateOperation(b))
    THEN [b EXCEPT !.err = "AddToSet() can only be used with UPDATE operations"]
    ELSE addOrMergeUpdate(b, UpdateAddToSet, field, value)

Upsert(b) ==
    IF b.err # NilErr THEN b
    ELSE IF ~(isUpdateOperation(b))
    THEN [b EXCEPT !.err = "Upsert() can only be used with UPDATE operations"]
    ELSE [b EXCEPT !.ast.Upsert = TRUE]

Match(b, filter) ==
    IF b.err # NilErr THEN b
    ELSE IF ~(b.ast.Operation = OpAggregate)
    THEN [b EXCEPT !.err = "Match() can only be used with AGGREGATE"]
    ELSE [b EXCEPT !.ast.Pipeline = Append(@, MatchStage(filter))]

Project(b, proj) ==
    IF b.err # NilErr THEN b
    ELSE IF ~(b.ast.Operation = OpAggregate)
    THEN [b EXCEPT !.err = "Project() can only be used with AGGREGATE"]
    ELSE [b EXCEPT !.ast.Pipeline = Append(@, ProjectStage(proj, EmptyMap))]

Group(b, id, accumulators) ==
    IF b.err # NilErr THEN b
    ELSE IF ~(b.ast.Operation = OpAggregate)
    THEN [b EXCEPT !.err = "Group() can only be used with AGGREGATE"]
    ELSE [b EXCEPT !.ast.Pipeline = Append(@, GroupStage(id, accumulators))]

Lookup(b, from, localField, foreignField, as) ==
    IF b.err # NilErr THEN b
    ELSE IF ~(b.ast.Operation = OpAggregate)
    THEN [b EXCEPT !.err = "Lookup() can only be used with AGGREGATE"]
    ELSE [b EXCEPT !.ast.Pipeline =
             Append(@, LookupStage(from, localField, foreignField, as))]

Unwind(b, path) ==
    IF b.err # NilErr THEN b
    ELSE IF ~(b.ast.Operation = OpAggregate)
    THEN [b EXCEPT !.err = "Unwind() can only be used with AGGREGATE"]
    ELSE [b EXCEPT !.ast.Pipeline = Append(@, UnwindStage(path))]

Stage(b, stage) ==
    IF b.err # NilErr THEN b
    ELSE IF ~(b.ast.Operation = OpAggregate)
    THEN [b EXCEPT !.err = "Stage() can only be used with AGGREGATE"]
    ELSE [b EXCEPT !.ast.Pipeline = Append(@, stage)]

\* The address of the DocumentAST the builder's constructor allocated.  b.ast
\* holds the object itself; a pointer to it is Ptr(astAddr).
astAddr == "b.ast"

Build(b) ==
    IF b.err # NilErr THEN [ast |-> NilPtr, err |-> b.err]
    ELSE IF Validate(b.ast) # NilErr THEN [ast |-> NilPtr, err |-> Validate(b.ast)]
    ELSE [ast |-> Ptr(astAddr), err |-> NilErr]


-----------------------------------------------------------------------------
(* encoding/json: the values the renderers marshal *)

\* A Go string is kept as the sequence of its pieces; a piece holding '<', '>'
\* or '&' holds nothing else, so that Marshal can escape it.
Str(s) == IF s = "" THEN <<>> ELSE <<s>>

JNull      == [j |-> "null"]
JBool(b)   == [j |-> "bool", b |-> b]
JNum(n)    == [j |-> "number", n |-> n]
JStr(s)    == [j |-> "string", s |-> s]
JArr(a)    == [j |-> "array", a |-> a]
JObj(m)    == [j |-> "object", m |-> m]

\* json.Marshal's HTML escaping of one piece of a string.
HTMLEscape(piece) ==
    CASE piece = "<"  -> "\\u003c"
      [] piece = ">"  -> "\\u003e"
      [] piece = "<>" -> "\\u003c\\u003e"
      [] piece = "<=" -> "\\u003c="
      [] piece = ">=" -> "\\u003e="
      [] piece = "&"  -> "\\u0026"
      [] OTHER -> piece

RECURSIVE EscapeFrom(_, _)
EscapeFrom(s, i) ==
    IF i > Len(s) THEN "" ELSE HTMLEscape(s[i]) \o EscapeFrom(s, i + 1)

\* A JSON string literal.
Quote(s) == "\"" \o EscapeFrom(s, 1) \o "\""

\* Every key the renderers write, in the bytewise order json.Marshal sorts keys by.
KeyOrder ==
    <<"", "#n0", "#n1", "#n10", "#n11", "#n2", "#n3", "#n4", "#n5", "#n6", "#n7",
      "#n8", "#n9", "$addFields", "$addToSet", "$all", "$and", "$avg",
      "$caseSensitive", "$cond", "$count", "$currentDate",
      "$diacriticSensitive", "$elemMatch", "$eq", "$exists",
      "$geoIntersects", "$geoWithin", "$geometry", "$group", "$gt", "$gte",
      "$in", "$inc", "$language", "$limit", "$lookup", "$lt", "$lte",
      "$match", "$max", "$maxDistance", "$min", "$mod", "$mul", "$ne",
      "$near", "$nearSphere", "$nin", "$nor", "$not", "$options", "$or",
      "$pop", "$project", "$pull", "$pullAll", "$push", "$regex", "$rename",
      "$search", "$set", "$setOnInsert", "$size", "$skip", "$sort", "$sum",
      "$text", "$type", "$unset", "$unwind", ":v0", ":v1", ":v10", ":v11",
      ":v2", ":v3", ":v4", ":v5", ":v6", ":v7", ":v8", ":v9",
      "ExpressionAttributeNames", "ExpressionAttributeValues",
      "FilterExpression", "Item", "Limit", "ProjectionExpression",
      "TableName", "UpdateExpression", "_id", "age", "as", "collection",
      "coordinates", "data", "direction", "doc", "document", "documents",
      "else", "field", "fields", "filter", "foreignField", "from", "if",
      "includeArrayIndex", "limit", "localField", "name", "offset",
      "operation", "operator", "orderBy", "path", "pipeline",
      "preserveNullAndEmptyArrays", "projection", "select", "selector",
      "skip", "sort", "then", "total", "type", "update", "updates", "upsert",
      "value", "where">>

\* The keys of a map in the order json.Marshal writes them: sorted bytewise.
SortedKeys(m) == SelectSeq(KeyOrder, LAMBDA k : k \in DOMAIN m)

\* strs[lo] .. strs[hi] joined by commas (halving, so that long lists do not
\* nest deeply).
RECURSIVE Join(_, _, _)
Join(strs, lo, hi) ==
    IF lo > hi THEN ""
    ELSE IF lo = hi THEN strs[lo]
    ELSE LET mid == (lo + hi) \div 2
         IN  Join(strs, lo, mid) \o "," \o Join(strs, mid + 1, hi)

RECURSIVE Marshal(_)
Marshal(v) ==
    CASE v.j = "null"   -> "null"
      [] v.j = "bool"   -> IF v.b THEN "true" ELSE "false"
      [] v.j = "number" -> ToString(v.n)
      [] v.j = "string" -> Quote(v.s)
      [] v.j = "array"  ->
           "[" \o Join([i \in DOMAIN v.a |-> Marshal(v.a[i])], 1, Len(v.a)) \o "]"
      [] v.j = "object" ->
           LET keys == SortedKeys(v.m)
           IN  "{" \o Join([i \in DOMAIN keys |->
                              Quote(Str(keys[i])) \o ":" \o Marshal(v.m[keys[i]])],
                           1, Len(keys)) \o "}"

\* What a render function hands back: its value, the parameter list after it,
\* and its error.
Rendered(out, params, err) == [out |-> out, params |-> params, err |-> err]

\* (*QueryResult, error) as Render returns it.
QueryResult(json, params) == [JSON |-> json, RequiredParams |-> params]
Failed(err) == [res |-> NilPtr, query |-> JNull, err |-> err]

\* The keys of Go map m in the order one range statement visits them; pref
\* ranks all keys.
RangeOrder(m, pref) == SelectSeq(pref, LAMBDA k : k \in DOMAIN m)

\* The preference the i-th range statement of a walk follows.
OrderAt(ord, i) == ord[((i - 1) % Len(ord)) + 1]

\* fmt.Sprintf(":%s", name) as a JSON string.
Placeholder(name) == JStr(Str(":" \o name))

\* %T of a FilterItem, a PipelineStage or an Expression.
TypeName(x) == IF x.kind = "nil" THEN "<nil>" ELSE "types." \o x.kind

\* A static or parameterised skip or limit as every renderer writes it: the
\* value (JNull when neither is set) and the parameter list after it.
renderPagination(pv, params) ==
    IF pv.Static # NilPtr THEN Rendered(JNum(pv.Static[1]), params, NilErr)
    ELSE IF pv.Param # NilPtr
    THEN Rendered(Placeholder(pv.Param[1].Name), Append(params, pv.Param[1].Name), NilErr)
    ELSE Rendered(JNull, params, NilErr)

\* The range over a field-to-param map that appends every param and writes
\* its placeholder into doc, visiting the fields in the order keys.
RECURSIVE rangeFields(_, _, _, _, _)
rangeFields(fields, keys, i, params, doc) ==
    IF i > Len(keys) THEN Rendered(doc, params, NilErr)
    ELSE rangeFields(fields, keys, i + 1,
            Append(params, fields[keys[i]].Name),
            MapSet(doc, keys[i].Path, Placeholder(fields[keys[i]].Name)))

\* The paths of the included projection fields, from field i on.
RECURSIVE includedFields(_, _)
includedFields(fields, i) ==
    IF i > Len(fields) THEN <<>>
    ELSE (IF fields[i].Include THEN <<JStr(Str(fields[i].Field.Path))>> ELSE <<>>)
            \o includedFields(fields, i + 1)

-----------------------------------------------------------------------------
(* pkg/mongodb *)

RECURSIVE mongodb_renderFilter(_, _), mongodb_renderConditions(_, _, _, _),
          mongodb_renderElemMatch(_, _, _, _)
mongodb_renderFilter(f, params) ==
    CASE f.kind = "FilterCondition" ->
           Rendered(JObj(f.Field.Path :> JObj(f.Operator :> Placeholder(f.Value.Name))),
                    IF f.Value.Name # "" THEN Append(params, f.Value.Name) ELSE params,
                    NilErr)
      [] f.kind = "FilterGroup" ->
           LET r == mongodb_renderConditions(f.Conditions, 1, params, <<>>)
           IN  IF r.err # NilErr THEN r
               ELSE Rendered(JObj(f.Logic :> JArr(r.out)), r.params, NilErr)
      [] f.kind = "RangeFilter" ->
           LET lo == IF f.Min = NilPtr THEN EmptyMap
                     ELSE (IF f.MinExclusive THEN "$gt" ELSE "$gte")
                             :> Placeholder(f.Min[1].Name)
               hi == IF f.Max = NilPtr THEN EmptyMap
                     ELSE (IF f.MaxExclusive THEN "$lt" ELSE "$lte")
                             :> Placeholder(f.Max[1].Name)
               p1 == IF f.Min = NilPtr THEN params ELSE Append(params, f.Min[1].Name)
               p2 == IF f.Max = NilPtr THEN p1 ELSE Append(p1, f.Max[1].Name)
           IN  Rendered(JObj(f.Field.Path :> JObj(hi @@ lo)), p2, NilErr)
      [] f.kind = "RegexFilter" ->
           LET p1 == Append(params, f.Pattern.Name)
               re == "$regex" :> Placeholder(f.Pattern.Name)
           IN  IF f.Options = NilPtr
               THEN Rendered(JObj(f.Field.Path :> JObj(re)), p1, NilErr)
               ELSE Rendered(JObj(f.Field.Path :>
                                JObj(("$options" :> Placeholder(f.Options[1].Name)) @@ re)),
                             Append(p1, f.Options[1].Name), NilErr)
      [] f.kind = "ExistsFilter" ->
           Rendered(JObj(f.Field.Path :> JObj("$exists" :> JBool(f.Exists))),
                    params, NilErr)
      [] f.kind = "GeoFilter" ->
           LET p1 == params \o <<f.Center.Lon.Name, f.Center.Lat.Name>>
               geometry ==
                  "$geometry" :>
                     JObj(("type" :> JStr(Str("Point"))) @@
                          ("coordinates" :> JArr(<<Placeholder(f.Center.Lon.Name),
                                                   Placeholder(f.Center.Lat.Name)>>)))
               geoQuery ==
                  IF f.Radius = NilPtr THEN geometry
                  ELSE ("$maxDistance" :> Placeholder(f.Radius[1].Name)) @@ geometry
           IN  Rendered(JObj(f.Field.Path :> JObj(f.Operator :> JObj(geoQuery))),
                        IF f.Radius = NilPtr THEN p1 ELSE Append(p1, f.Radius[1].Name),
                        NilErr)
      [] f.kind = "ArrayFilter" ->
           Rendered(JObj(f.Field.Path :> JObj(f.Operator :> Placeholder(f.Value.Name))),
                    Append(params, f.Value.Name), NilErr)
      [] f.kind = "ElemMatchFilter" ->
           LET r == mongodb_renderElemMatch(f.Conditions, 1, params, EmptyMap)
           IN  IF r.err # NilErr THEN r
               ELSE Rendered(JObj(f.Field.Path :> JObj("$elemMatch" :> JObj(r.out))),
                             r.params, NilErr)
      [] f.kind = "TextSearchFilter" ->
           LET p1 == Append(params, f.Search.Name)
               q1 == "$search" :> Placeholder(f.Search.Name)
               q2 == IF f.Language = NilPtr THEN q1
                     ELSE ("$language" :> Placeholder(f.Language[1].Name)) @@ q1
               q3 == IF f.CaseSensitive THEN ("$caseSensitive" :> JBool(TRUE)) @@ q2
                     ELSE q2
               q4 == IF f.DiacriticSensitive
                     THEN ("$diacriticSensitive" :> JBool(TRUE)) @@ q3
                     ELSE q3
           IN  Rendered(JObj("$text" :> JObj(q4)),
                        IF f.Language = NilPtr THEN p1
                        ELSE Append(p1, f.Language[1].Name),
                        NilErr)
      [] OTHER ->
           Rendered(JNull, params, "unsupported filter type: " \o TypeName(f))

\* The loop of the FilterGroup case, from condition i on.
mongodb_renderConditions(cs, i, params, out) ==
    IF i > Len(cs) THEN Rendered(out, params, NilErr)
    ELSE LET r == mongodb_renderFilter(cs[i], params)
         IN  IF r.err # NilErr THEN r
             ELSE mongodb_renderConditions(cs, i + 1, r.params, Append(out, r.out))

\* The loop of the ElemMatchFilter case, from condition i on.
mongodb_renderElemMatch(cs, i, params, out) ==
    IF i > Len(cs) THEN Rendered(out, params, NilErr)
    ELSE LET r == mongodb_renderFilter(cs[i], params)
         IN  IF r.err # NilErr THEN r
             ELSE mongodb_renderElemMatch(cs, i + 1, r.params, r.out.m @@ out)

RECURSIVE mongodb_projectionFrom(_, _, _)
mongodb_projectionFrom(fields, i, proj) ==
    IF i > Len(fields) THEN proj
    ELSE mongodb_projectionFrom(fields, i + 1,
            MapSet(proj, fields[i].Field.Path,
                   JNum(IF fields[i].Include THEN 1 ELSE 0)))

mongodb_renderProjection(p) == JObj(mongodb_projectionFrom(p.Fields, 1, EmptyMap))

RECURSIVE mongodb_sortFrom(_, _, _)
mongodb_sortFrom_FirstWins(sorts, i, sort) ==
    IF i > Len(sorts) THEN sort
    ELSE mongodb_sortFrom(sorts, i + 1,
            IF sorts[i].Field.Path \in DOMAIN sort THEN sort
            ELSE MapSet(sort, sorts[i].Field.Path, JNum(sorts[i].Order)))

mongodb_sortFrom(sorts, i, sort) ==
    IF i > Len(sorts) THEN sort
    ELSE mongodb_sortFrom(sorts, i + 1,
            MapSet(sort, sorts[i].Field.Path, JNum(sorts[i].Order)))

mongodb_renderDocument(doc, params, pref) ==
    LET r == rangeFields(doc.Fields, RangeOrder(doc.Fields, pref), 1, params, EmptyMap)
    IN  Rendered(JObj(r.out), r.params, NilErr)

\* The range over op.Fields, visiting the fields in the order keys.
RECURSIVE mongodb_updateFieldsFrom(_, _, _, _, _)
mongodb_updateFieldsFrom(fields, keys, i, params, result) ==
    IF i > Len(keys) THEN Rendered(JObj(result), params, NilErr)
    ELSE IF fields[keys[i]].Name # ""
    THEN mongodb_updateFieldsFrom(fields, keys, i + 1,
            Append(params, fields[keys[i]].Name),
            MapSet(result, keys[i].Path, Placeholder(fields[keys[i]].Name)))
    ELSE mongodb_updateFieldsFrom(fields, keys, i + 1, params,
            MapSet(result, keys[i].Path, JStr(Str(""))))

RECURSIVE mongodb_updateOpsFrom(_, _, _, _, _)
mongodb_updateOpsFrom(ops, i, params, result, ord) ==
    IF i > Len(ops) THEN Rendered(JObj(result), params, NilErr)
    ELSE LET r == mongodb_updateFieldsFrom(ops[i].Fields,
                     RangeOrder(ops[i].Fields, OrderAt(ord, i).fields), 1, params, EmptyMap)
         IN  mongodb_updateOpsFrom(ops, i + 1, r.params,
                MapSet(result, ops[i].Operator, r.out), ord)

mongodb_renderUpdateOps(ops, params, ord) ==
    mongodb_updateOpsFrom(ops, 1, params, EmptyMap, ord)

RECURSIVE mongodb_renderExpression(_, _), mongodb_renderArgs(_, _, _, _)
mongodb_renderExpression(expr, params) ==
    CASE expr.kind = "nil" -> Rendered(JNull, params, NilErr)
      [] expr.kind = "FieldExpression" ->
           Rendered(JStr(Str("$" \o expr.Field.Path)), params, NilErr)
      [] expr.kind = "LiteralExpression" ->
           Rendered(Placeholder(expr.Value.Name), Append(params, expr.Value.Name), NilErr)
      [] expr.kind = "OperatorExpression" ->
           LET r == mongodb_renderArgs(expr.Args, 1, params, <<>>)
           IN  Rendered(JObj(expr.Operator :> JArr(r.out)), r.params, NilErr)
      [] expr.kind = "ConditionalExpression" ->
           LET c == mongodb_renderExpression(expr.If, params)
               t == mongodb_renderExpression(expr.Then, c.params)
               e == mongodb_renderExpression(expr.Else, t.params)
           IN  Rendered(JObj("$cond" :> JObj(("if" :> c.out) @@ ("then" :> t.out)
                                                @@ ("else" :> e.out))),
                        e.params, NilErr)
      [] OTHER -> Rendered(JNull, params, NilErr)

mongodb_renderArgs(args, i, params, out) ==
    IF i > Len(args) THEN Rendered(out, params, NilErr)
    ELSE LET r == mongodb_renderExpression(args[i], params)
         IN  mongodb_renderArgs(args, i + 1, r.params, Append(out, r.out))

\* The range over s.Accumulators, visiting the names in the order keys.
RECURSIVE mongodb_groupFrom(_, _, _, _, _)
mongodb_groupFrom(accs, keys, i, params, group) ==
    IF i > Len(keys) THEN Rendered(JObj(group), params, NilErr)
    ELSE LET r == mongodb_renderExpression(accs[keys[i]].Expr, params)
         IN  mongodb_groupFrom(accs, keys, i + 1, r.params,
                MapSet(group, keys[i], JObj(accs[keys[i]].Operator :> r.out)))

\* The range over s.Fields of an AddFieldsStage.
RECURSIVE mongodb_addFieldsFrom(_, _, _, _, _)
mongodb_addFieldsFrom(exprs, keys, i, params, fields) ==
    IF i > Len(keys) THEN Rendered(JObj(fields), params, NilErr)
    ELSE LET r == mongodb_renderExpression(exprs[keys[i]], params)
         IN  mongodb_addFieldsFrom(exprs, keys, i + 1, r.params,
                MapSet(fields, keys[i], r.out))

mongodb_renderPipelineStage(s, params, pref) ==
    CASE s.kind = "MatchStage" ->
           LET r == mongodb_renderFilter(s.Filter, params)
           IN  IF r.err # NilErr THEN r
               ELSE Rendered(JObj("$match" :> r.out), r.params, NilErr)
      [] s.kind = "ProjectStage" ->
           Rendered(JObj("$project" :> mongodb_renderProjection(s.Projection)),
                    params, NilErr)
      [] s.kind = "GroupStage" ->
           LET id == mongodb_renderExpression(s.ID, params)
               r  == mongodb_groupFrom(s.Accumulators,
                        RangeOrder(s.Accumulators, pref.names), 1, id.params,
                        "_id" :> id.out)
           IN  Rendered(JObj("$group" :> r.out), r.params, NilErr)
      [] s.kind = "SortStage" ->
           Rendered(JObj("$sort" :> JObj(mongodb_sortFrom(s.Sorts, 1, EmptyMap))),
                    params, NilErr)
      [] s.kind = "LimitStage" ->
           LET r == renderPagination(s.Limit, params)
           IN  Rendered(JObj("$limit" :> r.out), r.params, NilErr)
      [] s.kind = "SkipStage" ->
           LET r == renderPagination(s.Skip, params)
           IN  Rendered(JObj("$skip" :> r.out), r.params, NilErr)
      [] s.kind = "UnwindStage" ->
           LET u1 == "path" :> JStr(Str("$" \o s.Path.Path))
               u2 == IF s.IncludeArrayIndex = NilPtr THEN u1
                     ELSE ("includeArrayIndex" :> JStr(Str(s.IncludeArrayIndex[1]))) @@ u1
               u3 == IF s.PreserveNullAndEmptyArrays
                     THEN ("preserveNullAndEmptyArrays" :> JBool(TRUE)) @@ u2
                     ELSE u2
           IN  Rendered(JObj("$unwind" :> JObj(u3)), params, NilErr)
      [] s.kind = "LookupStage" ->
           Rendered(JObj("$lookup" :>
                       JObj(("from" :> JStr(Str(s.From)))
                            @@ ("localField" :> JStr(Str(s.LocalField.Path)))
                            @@ ("foreignField" :> JStr(Str(s.ForeignField.Path)))
                            @@ ("as" :> JStr(Str(s.As))))),
                    params, NilErr)
      [] s.kind = "AddFieldsStage" ->
           LET r == mongodb_addFieldsFrom(s.Fields, RangeOrder(s.Fields, pref.names),
                                          1, params, EmptyMap)
           IN  Rendered(JObj("$addFields" :> r.out), r.params, NilErr)
      [] s.kind = "CountStage" ->
           Rendered(JObj("$count" :> JStr(Str(s.FieldName))), params, NilErr)
      [] OTHER ->
           Rendered(JNull, params, "unsupported pipeline stage: " \o TypeName(s))

mongodb_toResult(query, params) ==
    [res |-> Ptr(QueryResult(Marshal(JObj(query)), params)),
     query |-> JObj(query), err |-> NilErr]

\* query["collection"] and query["operation"], which every render function sets.
mongodb_header(ast) ==
    ("collection" :> JStr(Str(ast.Target.Name)))
       @@ ("operation" :> JStr(Str(ast.Operation)))

\* query["filter"] as renderFind, renderUpdate, renderDelete and renderCount set it.
mongodb_filterOf(ast, params) ==
    IF ast.FilterClause # NilFilterItem
    THEN mongodb_renderFilter(ast.FilterClause, params)
    ELSE Rendered(JObj(EmptyMap), params, NilErr)

mongodb_renderFind(ast, params) ==
    LET f == mongodb_filterOf(ast, params)
        q1 == ("filter" :> f.out) @@ mongodb_header(ast)
        q2 == IF ast.Projection # NilPtr
              THEN ("projection" :> mongodb_renderProjection(ast.Projection[1])) @@ q1
              ELSE q1
        q3 == IF Len(ast.SortClauses) > 0
              THEN ("sort" :> JObj(mongodb_sortFrom(ast.SortClauses, 1, EmptyMap))) @@ q2
              ELSE q2
        sk == IF ast.Skip # NilPtr THEN renderPagination(ast.Skip[1], f.params)
              ELSE Rendered(JNull, f.params, NilErr)
        q4 == IF sk.out # JNull THEN ("skip" :> sk.out) @@ q3 ELSE q3
        lm == IF ast.Limit # NilPtr THEN renderPagination(ast.Limit[1], sk.params)
              ELSE Rendered(JNull, sk.params, NilErr)
        q5 == IF lm.out # JNull THEN ("limit" :> lm.out) @@ q4 ELSE q4
    IN  IF f.err # NilErr THEN Failed(f.err)
        ELSE mongodb_toResult(q5, lm.params)

mongodb_renderInsert_WithFilter(ast, params, ord) ==
    LET f   == mongodb_filterOf(ast, params)
        doc == mongodb_renderDocument(ast.Documents[1], f.params, OrderAt(ord, 1).fields)
    IN  IF Len(ast.Documents) > 0
        THEN mongodb_toResult(("document" :> doc.out) @@ ("filter" :> f.out)
                                 @@ mongodb_header(ast), doc.params)
        ELSE mongodb_toResult(("filter" :> f.out) @@ mongodb_header(ast), f.params)

mongodb_renderInsert(ast, params, ord) ==
    IF Len(ast.Documents) > 0
    THEN LET doc == mongodb_renderDocument(ast.Documents[1], params, OrderAt(ord, 1).fields)
         IN  mongodb_toResult(("document" :> doc.out) @@ mongodb_header(ast), doc.params)
    ELSE mongodb_toResult(mongodb_header(ast), params)

\* seqs[lo] \o .. \o seqs[hi] (halving, so that long lists do not nest deeply).
RECURSIVE Flatten(_, _, _)
Flatten(seqs, lo, hi) ==
    IF lo > hi THEN <<>>
    ELSE IF lo = hi THEN seqs[lo]
    ELSE LET mid == (lo + hi) \div 2
         IN  Flatten(seqs, lo, mid) \o Flatten(seqs, mid + 1, hi)

\* The loop over ast.Documents: document i is ranged in the i-th order, and
\* the parameters of the documents follow one another.
mongodb_renderInsertMany(ast, params, ord) ==
    LET each == [i \in DOMAIN ast.Documents |->
                    mongodb_renderDocument(ast.Documents[i], <<>>, OrderAt(ord, i).fields)]
        docs == [i \in DOMAIN each |-> each[i].out]
        ps   == params \o Flatten([i \in DOMAIN each |-> each[i].params],
                                  1, Len(each))
    IN  mongodb_toResult(("documents" :> JArr(docs)) @@ mongodb_header(ast), ps)

mongodb_renderUpdate(ast, params, ord) ==
    LET f == mongodb_filterOf(ast, params)
        u == mongodb_renderUpdateOps(ast.UpdateOps, f.params, ord)
        q1 == ("update" :> u.out) @@ ("filter" :> f.out) @@ mongodb_header(ast)
        q2 == IF ast.Upsert THEN ("upsert" :> JBool(TRUE)) @@ q1 ELSE q1
    IN  IF f.err # NilErr THEN Failed(f.err)
        ELSE mongodb_toResult(q2, u.params)

mongodb_renderUpdateMany(ast, params, ord) == mongodb_renderUpdate(ast, params, ord)

mongodb_renderDelete(ast, params) ==
    LET f == mongodb_filterOf(ast, params)
    IN  IF f.err # NilErr THEN Failed(f.err)
        ELSE mongodb_toResult(("filter" :> f.out) @@ mongodb_header(ast), f.params)

mongodb_renderDeleteMany(ast, params) == mongodb_renderDelete(ast, params)

RECURSIVE mongodb_pipelineFrom(_, _, _, _, _)
mongodb_pipelineFrom(stages, i, params, pipeline, ord) ==
    IF i > Len(stages) THEN Rendered(JArr(pipeline), params, NilErr)
    ELSE LET r == mongodb_renderPipelineStage(stages[i], params, OrderAt(ord, i))
         IN  IF r.err # NilErr THEN r
             ELSE mongodb_pipelineFrom(stages, i + 1, r.params,
                                       Append(pipeline, r.out), ord)

mongodb_renderAggregate(ast, params, ord) ==
    LET p == mongodb_pipelineFrom(ast.Pipeline, 1, params, <<>>, ord)
    IN  IF p.err # NilErr THEN Failed(p.err)
        ELSE mongodb_toResult(("pipeline" :> p.out) @@ mongodb_header(ast), p.params)

mongodb_renderCount_AsFind(ast, params) == mongodb_renderFind(ast, params)

mongodb_renderCount(ast, params) ==
    LET f == mongodb_filterOf(ast, params)
    IN  IF f.err # NilErr THEN Failed(f.err)
        ELSE mongodb_toResult(("filter" :> f.out) @@ mongodb_header(ast), f.params)

mongodb_renderDistinct(ast, params) ==
    LET q1 == ("field" :> JStr(Str(ast.DistinctField[1].Path))) @@ mongodb_header(ast)
        f == mongodb_renderFilter(ast.FilterClause, params)
    IN  IF ast.FilterClause = NilFilterItem THEN mongodb_toResult(q1, params)
        ELSE IF f.err # NilErr THEN Failed(f.err)
        ELSE mongodb_toResult(("filter" :> f.out) @@ q1, f.params)

\* ord ranks the keys of each Go map the walk ranges over.
mongodb_Render(ast, ord) ==
    IF Validate(ast) # NilErr THEN Failed("invalid AST: " \o Validate(ast))
    ELSE CASE ast.Operation \in {OpFind, OpFindOne} -> mongodb_renderFind(ast, <<>>)
           [] ast.Operation = OpInsert -> mongodb_renderInsert(ast, <<>>, ord)
           [] ast.Operation = OpInsertMany -> mongodb_renderInsertMany(ast, <<>>, ord)
           [] ast.Operation = OpUpdate -> mongodb_renderUpdate(ast, <<>>, ord)
           [] ast.Operation = OpUpdateMany -> mongodb_renderUpdateMany(ast, <<>>, ord)
           [] ast.Operation = OpDelete -> mongodb_renderDelete(ast, <<>>)
           [] ast.Operation = OpDeleteMany -> mongodb_renderDeleteMany(ast, <<>>)
           [] ast.Operation = OpAggregate -> mongodb_renderAggregate(ast, <<>>, ord)
           [] ast.Operation = OpCount -> mongodb_renderCount(ast, <<>>)
           [] ast.Operation = OpDistinct -> mongodb_renderDistinct(ast, <<>>)
           [] OTHER -> Failed("unsupported operation: " \o ast.Operation)

mongodb_SupportsOperation(op) == TRUE
mongodb_SupportsFilter(op) == TRUE
mongodb_SupportsUpdate(op) == TRUE
mongodb_SupportsPipelineStage(stage) == TRUE

-----------------------------------------------------------------------------
(* pkg/dynamodb *)

\* The variables the closures getName and getValue share, with the parameter
\* list getValue appends to.
\* The counters kept outside the call: they go on from the calls before.
dynamodb_closures_SharedCounters(params) ==
    [attrNames |-> EmptyMap, attrValues |-> EmptyMap,
     nameCounter |-> Len(results), valueCounter |-> Len(results), params |-> params]

dynamodb_closures(params) ==
    [attrNames |-> EmptyMap, attrValues |-> EmptyMap,
     nameCounter |-> 0, valueCounter |-> 0, params |-> params]

\* getName(field): the key it returns and the variables after the call.
dynamodb_getName(c, field) ==
    LET key == "#n" \o ToString(c.nameCounter)
    IN  [key |-> key,
         c |-> [c EXCEPT !.nameCounter = @ + 1,
                         !.attrNames = MapSet(@, key, field)]]

\* getValue(param): the key it returns and the variables after the call.
dynamodb_getValue(c, param) ==
    LET key == ":v" \o ToString(c.valueCounter)
    IN  [key |-> key,
         c |-> [c EXCEPT !.valueCounter = @ + 1,
                         !.attrValues = MapSet(@, key, ":" \o param),
                         !.params = Append(@, param)]]

dynamodb_mapOperator(op) ==
    CASE op = OpEQ  -> "="
      [] op = OpNE  -> "<>"
      [] op = OpGT  -> ">"
      [] op = OpGTE -> ">="
      [] op = OpLT  -> "<"
      [] op = OpLTE -> "<="
      [] OTHER -> ""

\* result of the loop "result = Sprintf("%s %s %s", result, logic, exprs[i])".
RECURSIVE dynamodb_joinFrom(_, _, _, _)
dynamodb_joinFrom(exprs, i, logic, result) ==
    IF i > Len(exprs) THEN result
    ELSE dynamodb_joinFrom(exprs, i + 1, logic,
                           result \o <<" ", logic, " ">> \o exprs[i])

\* An expression string, the closures' variables after building it, the error.
Built(expr, c, err) == [expr |-> expr, c |-> c, err |-> err]

RECURSIVE dynamodb_buildFilterExpression(_, _), dynamodb_buildConditions(_, _, _, _)
dynamodb_buildFilterExpression(f, c) ==
    CASE f.kind = "FilterCondition" ->
           LET n == dynamodb_getName(c, f.Field.Path)
               v == dynamodb_getValue(n.c, f.Value.Name)
               op == dynamodb_mapOperator(f.Operator)
           IN  IF op = ""
               THEN Built(<<>>, v.c,
                          "DynamoDB does not support filter operator: " \o f.Operator)
               ELSE Built(<<n.key, " ", op, " ", v.key>>, v.c, NilErr)
      [] f.kind = "FilterGroup" ->
           IF Len(f.Conditions) = 0 THEN Built(<<>>, c, NilErr)
           ELSE LET r == dynamodb_buildConditions(f.Conditions, 1, c, <<>>)
                    logic == IF f.Logic = LogicOR THEN "OR" ELSE "AND"
                IN  IF r.err # NilErr THEN r
                    ELSE Built(dynamodb_joinFrom(r.expr, 2, logic, r.expr[1]), r.c, NilErr)
      [] f.kind = "ExistsFilter" ->
           LET n == dynamodb_getName(c, f.Field.Path)
           IN  IF f.Exists
               THEN Built(<<"attribute_exists(", n.key, ")">>, n.c, NilErr)
               ELSE Built(<<"attribute_not_exists(", n.key, ")">>, n.c, NilErr)
      [] OTHER ->
           Built(<<>>, c, "DynamoDB does not support filter type: " \o TypeName(f))

\* The loop of the FilterGroup case from condition i on; exprs holds the
\* parenthesised expressions so far.
dynamodb_buildConditions(cs, i, c, exprs) ==
    IF i > Len(cs) THEN Built(exprs, c, NilErr)
    ELSE LET r == dynamodb_buildFilterExpression(cs[i], c)
         IN  IF r.err # NilErr THEN r
             ELSE dynamodb_buildConditions(cs, i + 1, r.c,
                     Append(exprs, <<"(">> \o r.expr \o <<")">>))

\* map[string]string as a JSON object.
StringMap(m) == JObj([k \in DOMAIN m |-> JStr(Str(m[k]))])

dynamodb_toResult(query, params) ==
    [res |-> Ptr(QueryResult(Marshal(JObj(query)), params)),
     query |-> JObj(query), err |-> NilErr]

\* The loop building projExpr, from field i on.
RECURSIVE dynamodb_projExprFrom(_, _, _, _)
dynamodb_projExprFrom(fields, i, c, projExpr) ==
    IF i > Len(fields) THEN Built(projExpr, c, NilErr)
    ELSE IF fields[i].Include
    THEN LET n == dynamodb_getName(c, fields[i].Field.Path)
         IN  dynamodb_projExprFrom(fields, i + 1, n.c,
                projExpr \o (IF i > 1 THEN <<", ">> ELSE <<>>) \o <<n.key>>)
    ELSE dynamodb_projExprFrom(fields, i + 1, c, projExpr)

dynamodb_renderQuery(ast, params) ==
    LET c0 == dynamodb_closures(params)
        f  == IF ast.FilterClause # NilFilterItem
              THEN dynamodb_buildFilterExpression(ast.FilterClause, c0)
              ELSE Built(<<>>, c0, NilErr)
        withNames  == DOMAIN f.c.attrNames # {}
        withValues == DOMAIN f.c.attrValues # {}
        c1 == IF ast.Limit # NilPtr /\ ast.Limit[1].Static = NilPtr
                 /\ ast.Limit[1].Param # NilPtr
              THEN [f.c EXCEPT !.params = Append(@, ast.Limit[1].Param[1].Name)]
              ELSE f.c
        p  == IF ast.Projection # NilPtr
              THEN dynamodb_projExprFrom(ast.Projection[1].Fields, 1, c1, <<>>)
              ELSE Built(<<>>, c1, NilErr)
        q1 == "TableName" :> JStr(Str(ast.Target.Name))
        q2 == IF ast.FilterClause # NilFilterItem
              THEN ("FilterExpression" :> JStr(f.expr)) @@ q1 ELSE q1
        \* the maps are put into query by reference: what getName adds
        \* afterwards is in them when they are marshalled
        q3 == IF withNames
              THEN ("ExpressionAttributeNames" :> StringMap(p.c.attrNames)) @@ q2
              ELSE q2
        q4 == IF withValues
              THEN ("ExpressionAttributeValues" :> StringMap(p.c.attrValues)) @@ q3
              ELSE q3
        q5 == IF ast.Limit = NilPtr THEN q4
              ELSE IF ast.Limit[1].Static # NilPtr
              THEN ("Limit" :> JNum(ast.Limit[1].Static[1])) @@ q4
              ELSE IF ast.Limit[1].Param # NilPtr
              THEN ("Limit" :> JStr(Str(":" \o ast.Limit[1].Param[1].Name))) @@ q4
              ELSE q4
        q6 == IF p.expr # <<>> THEN ("ProjectionExpression" :> JStr(p.expr)) @@ q5
              ELSE q5
    IN  IF f.err # NilErr THEN Failed(f.err)
        ELSE dynamodb_toResult(q6, p.c.params)

dynamodb_renderPutItem(ast, params, ord) ==
    LET q1 == "TableName" :> JStr(Str(ast.Target.Name))
        item == rangeFields(ast.Documents[1].Fields,
                   RangeOrder(ast.Documents[1].Fields, OrderAt(ord, 1).fields),
                   1, params, EmptyMap)
    IN  IF Len(ast.Documents) > 0
        THEN dynamodb_toResult(("Item" :> JObj(item.out)) @@ q1, item.params)
        ELSE dynamodb_toResult(q1, params)

\* What the loop over UpdateOps has built.
Exprs(setExprs, removeExprs, c, err) ==
    [setExprs |-> setExprs, removeExprs |-> removeExprs, c |-> c, err |-> err]

\* The range over op.Fields of a Set or Inc, visiting the fields in the order keys.
RECURSIVE dynamodb_setFrom(_, _, _, _)
dynamodb_setFrom(op, keys, i, e) ==
    IF i > Len(keys) THEN e
    ELSE LET n == dynamodb_getName(e.c, keys[i].Path)
             v == dynamodb_getValue(n.c, op.Fields[keys[i]].Name)
             expr == IF op.Operator = UpdateInc
                     THEN <<n.key, " = ", n.key, " + ", v.key>>
                     ELSE <<n.key, " = ", v.key>>
         IN  dynamodb_setFrom(op, keys, i + 1,
                Exprs(Append(e.setExprs, expr), e.removeExprs, v.c, NilErr))

\* The range over op.Fields of an Unset.
RECURSIVE dynamodb_removeFrom(_, _, _)
dynamodb_removeFrom(keys, i, e) ==
    IF i > Len(keys) THEN e
    ELSE LET n == dynamodb_getName(e.c, keys[i].Path)
         IN  dynamodb_removeFrom(keys, i + 1,
                Exprs(e.setExprs, Append(e.removeExprs, <<n.key>>), n.c, NilErr))

\* The loop over ast.UpdateOps, from operation i on.
RECURSIVE dynamodb_updateOpsFrom(_, _, _, _)
dynamodb_updateOpsFrom(ops, i, e, ord) ==
    IF i > Len(ops) THEN e
    ELSE LET keys == RangeOrder(ops[i].Fields, OrderAt(ord, i).fields)
         IN  IF ops[i].Operator \in {UpdateSet, UpdateInc}
             THEN dynamodb_updateOpsFrom(ops, i + 1,
                                         dynamodb_setFrom(ops[i], keys, 1, e), ord)
             ELSE IF ops[i].Operator = UpdateUnset
             THEN dynamodb_updateOpsFrom(ops, i + 1,
                                         dynamodb_removeFrom(keys, 1, e), ord)
             ELSE Exprs(e.setExprs, e.removeExprs, e.c,
                        "DynamoDB does not support update operator: "
                           \o ops[i].Operator)

\* exprs joined by ", ", from expression i on.
RECURSIVE dynamodb_commaFrom(_, _)
dynamodb_commaFrom(exprs, i) ==
    IF i > Len(exprs) THEN <<>>
    ELSE (IF i > 1 THEN <<", ">> ELSE <<>>) \o exprs[i]
            \o dynamodb_commaFrom(exprs, i + 1)

dynamodb_renderUpdateItem(ast, params, ord) ==
    LET e == dynamodb_updateOpsFrom(ast.UpdateOps, 1,
                Exprs(<<>>, <<>>, dynamodb_closures(params), NilErr), ord)
        set == IF Len(e.setExprs) > 0
               THEN <<"SET ">> \o dynamodb_commaFrom(e.setExprs, 1) ELSE <<>>
        updateExpr ==
            IF Len(e.removeExprs) > 0
            THEN set \o (IF set # <<>> THEN <<" ">> ELSE <<>>) \o <<"REMOVE ">>
                    \o dynamodb_commaFrom(e.removeExprs, 1)
            ELSE set
        q1 == ("UpdateExpression" :> JStr(updateExpr))
                 @@ ("TableName" :> JStr(Str(ast.Target.Name)))
        q2 == IF DOMAIN e.c.attrNames # {}
              THEN ("ExpressionAttributeNames" :> StringMap(e.c.attrNames)) @@ q1
              ELSE q1
        q3 == IF DOMAIN e.c.attrValues # {}
              THEN ("ExpressionAttributeValues" :> StringMap(e.c.attrValues)) @@ q2
              ELSE q2
    IN  IF e.err # NilErr THEN Failed(e.err)
        ELSE dynamodb_toResult(q3, e.c.params)

dynamodb_renderDeleteItem(ast, params) ==
    dynamodb_toResult("TableName" :> JStr(Str(ast.Target.Name)), params)

dynamodb_SupportsOperation_WithCount(op) ==
    op \in {OpFind, OpFindOne, OpInsert, OpUpdate, OpDelete, OpCount}

dynamodb_SupportsOperation(op) ==
    op \in {OpFind, OpFindOne, OpInsert, OpUpdate, OpDelete}

dynamodb_SupportsFilter(op) == op \in {OpEQ, OpNE, OpGT, OpGTE, OpLT, OpLTE, OpExists}

dynamodb_SupportsUpdate(op) == op \in {UpdateSet, UpdateUnset, UpdateInc}

dynamodb_SupportsPipelineStage(stage) == FALSE

dynamodb_Render(ast, ord) ==
    IF Validate(ast) # NilErr THEN Failed("invalid AST: " \o Validate(ast))
    ELSE IF ~dynamodb_SupportsOperation(ast.Operation)
    THEN Failed("DynamoDB does not support operation: " \o ast.Operation)
    ELSE CASE ast.Operation \in {OpFind, OpFindOne} -> dynamodb_renderQuery(ast, <<>>)
           [] ast.Operation = OpInsert -> dynamodb_renderPutItem(ast, <<>>, ord)
           [] ast.Operation = OpUpdate -> dynamodb_renderUpdateItem(ast, <<>>, ord)
           [] ast.Operation = OpDelete -> dynamodb_renderDeleteItem(ast, <<>>)
           [] OTHER -> Failed("unsupported operation: " \o ast.Operation)

-----------------------------------------------------------------------------
(* pkg/couchdb *)

couchdb_mapOperator(op) ==
    CASE op = OpEQ     -> "$eq"
      [] op = OpNE     -> "$ne"
      [] op = OpGT     -> "$gt"
      [] op = OpGTE    -> "$gte"
      [] op = OpLT     -> "$lt"
      [] op = OpLTE    -> "$lte"
      [] op = OpIN     -> "$in"
      [] op = OpNotIn  -> "$nin"
      [] op = OpRegex  -> "$regex"
      [] op = OpExists -> "$exists"
      [] OTHER -> ""

couchdb_mapLogic(op) ==
    CASE op = LogicAND -> "$and"
      [] op = LogicOR  -> "$or"
      [] op = LogicNOR -> "$nor"
      [] OTHER -> "$and"

RECURSIVE couchdb_buildSelector(_, _), couchdb_buildConditions(_, _, _, _)
couchdb_buildSelector(f, params) ==
    CASE f.kind = "FilterCondition" ->
           LET op == couchdb_mapOperator(f.Operator)
           IN  IF op = ""
               THEN Rendered(JNull, Append(params, f.Value.Name),
                             "CouchDB does not support filter operator: " \o f.Operator)
               ELSE Rendered(JObj(f.Field.Path :> JObj(op :> Placeholder(f.Value.Name))),
                             Append(params, f.Value.Name), NilErr)
      [] f.kind = "FilterGroup" ->
           LET r == couchdb_buildConditions(f.Conditions, 1, params, <<>>)
           IN  IF r.err # NilErr THEN r
               ELSE Rendered(JObj(couchdb_mapLogic(f.Logic) :> JArr(r.out)),
                             r.params, NilErr)
      [] f.kind = "RangeFilter" ->
           LET lo == IF f.Min = NilPtr THEN EmptyMap
                     ELSE (IF f.MinExclusive THEN "$gt" ELSE "$gte")
                             :> Placeholder(f.Min[1].Name)
               hi == IF f.Max = NilPtr THEN EmptyMap
                     ELSE (IF f.MaxExclusive THEN "$lt" ELSE "$lte")
                             :> Placeholder(f.Max[1].Name)
               p1 == IF f.Min = NilPtr THEN params ELSE Append(params, f.Min[1].Name)
               p2 == IF f.Max = NilPtr THEN p1 ELSE Append(p1, f.Max[1].Name)
           IN  Rendered(JObj(f.Field.Path :> JObj(hi @@ lo)), p2, NilErr)
      [] f.kind = "RegexFilter" ->
           Rendered(JObj(f.Field.Path :> JObj("$regex" :> Placeholder(f.Pattern.Name))),
                    Append(params, f.Pattern.Name), NilErr)
      [] f.kind = "ExistsFilter" ->
           Rendered(JObj(f.Field.Path :> JObj("$exists" :> JBool(f.Exists))),
                    params, NilErr)
      [] OTHER ->
           Rendered(JNull, params,
                    "CouchDB does not support filter type: " \o TypeName(f))

\* The loop of the FilterGroup case, from condition i on.
couchdb_buildConditions(cs, i, params, out) ==
    IF i > Len(cs) THEN Rendered(out, params, NilErr)
    ELSE LET r == couchdb_buildSelector(cs[i], params)
         IN  IF r.err # NilErr THEN r
             ELSE couchdb_buildConditions(cs, i + 1, r.params, Append(out, r.out))

couchdb_toResult(query, params) ==
    [res |-> Ptr(QueryResult(Marshal(JObj(query)), params)),
     query |-> JObj(query), err |-> NilErr]

couchdb_renderFind(ast, params) ==
    LET s  == IF ast.FilterClause # NilFilterItem
              THEN couchdb_buildSelector(ast.FilterClause, params)
              ELSE Rendered(JObj(EmptyMap), params, NilErr)
        q1 == "selector" :> s.out
        fields == includedFields(ast.Projection[1].Fields, 1)
        q2 == IF ast.Projection # NilPtr /\ Len(fields) > 0
              THEN ("fields" :> JArr(fields)) @@ q1 ELSE q1
        sort == [i \in 1..Len(ast.SortClauses) |->
                    JObj(ast.SortClauses[i].Field.Path :>
                            JStr(Str(IF ast.SortClauses[i].Order = Descending
                                     THEN "desc" ELSE "asc")))]
        q3 == IF Len(ast.SortClauses) > 0 THEN ("sort" :> JArr(sort)) @@ q2 ELSE q2
        lm == IF ast.Limit # NilPtr THEN renderPagination(ast.Limit[1], s.params)
              ELSE Rendered(JNull, s.params, NilErr)
        q4 == IF lm.out # JNull THEN ("limit" :> lm.out) @@ q3 ELSE q3
        sk == IF ast.Skip # NilPtr THEN renderPagination(ast.Skip[1], lm.params)
              ELSE Rendered(JNull, lm.params, NilErr)
        q5 == IF sk.out # JNull THEN ("skip" :> sk.out) @@ q4 ELSE q4
    IN  IF s.err # NilErr THEN Failed(s.err)
        ELSE couchdb_toResult(q5, sk.params)

couchdb_renderInsert(ast, params, ord) ==
    LET q1 == "operation" :> JStr(Str("insert"))
        doc == rangeFields(ast.Documents[1].Fields,
                  RangeOrder(ast.Documents[1].Fields, OrderAt(ord, 1).fields),
                  1, params, EmptyMap)
    IN  IF Len(ast.Documents) > 0
        THEN couchdb_toResult(("doc" :> JObj(doc.out)) @@ q1, doc.params)
        ELSE couchdb_toResult(q1, params)

\* The loop over ast.UpdateOps, from operation i on.
RECURSIVE couchdb_updatesFrom(_, _, _, _, _)
couchdb_updatesFrom_AnyOperator(ops, i, params, updates, ord) ==
    IF i > Len(ops) THEN Rendered(updates, params, NilErr)
    ELSE LET r == rangeFields(ops[i].Fields,
                     RangeOrder(ops[i].Fields, OrderAt(ord, i).fields),
                     1, params, updates)
         IN  couchdb_updatesFrom(ops, i + 1, r.params, r.out, ord)

couchdb_updatesFrom(ops, i, params, updates, ord) ==
    IF i > Len(ops) THEN Rendered(updates, params, NilErr)
    ELSE IF ops[i].Operator # UpdateSet
    THEN Rendered(updates, params, "CouchDB only supports $set updates")
    ELSE LET r == rangeFields(ops[i].Fields,
                     RangeOrder(ops[i].Fields, OrderAt(ord, i).fields),
                     1, params, updates)
         IN  couchdb_updatesFrom(ops, i + 1, r.params, r.out, ord)

couchdb_renderUpdate(ast, params, ord) ==
    LET q1 == "operation" :> JStr(Str("update"))
        s  == IF ast.FilterClause # NilFilterItem
              THEN couchdb_buildSelector(ast.FilterClause, params)
              ELSE Rendered(JNull, params, NilErr)
        q2 == IF ast.FilterClause # NilFilterItem THEN ("selector" :> s.out) @@ q1
              ELSE q1
        u  == couchdb_updatesFrom(ast.UpdateOps, 1, s.params, EmptyMap, ord)
    IN  IF s.err # NilErr THEN Failed(s.err)
        ELSE IF u.err # NilErr THEN Failed(u.err)
        ELSE couchdb_toResult(("updates" :> JObj(u.out)) @@ q2, u.params)

couchdb_renderDelete(ast, params) ==
    LET q1 == "operation" :> JStr(Str("delete"))
        s  == couchdb_buildSelector(ast.FilterClause, params)
    IN  IF ast.FilterClause = NilFilterItem THEN couchdb_toResult(q1, params)
        ELSE IF s.err # NilErr THEN Failed(s.err)
        ELSE couchdb_toResult(("selector" :> s.out) @@ q1, s.params)

couchdb_SupportsOperation(op) ==
    op \in {OpFind, OpFindOne, OpInsert, OpUpdate, OpDelete}

couchdb_SupportsFilter(op) ==
    op \in {OpEQ, OpNE, OpGT, OpGTE, OpLT, OpLTE, OpIN, OpNotIn, OpRegex, OpExists}

couchdb_SupportsUpdate(op) == op = UpdateSet

couchdb_SupportsPipelineStage(stage) == FALSE

couchdb_Render(ast, ord) ==
    IF Validate(ast) # NilErr THEN Failed("invalid AST: " \o Validate(ast))
    ELSE IF ~couchdb_SupportsOperation(ast.Operation)
    THEN Failed("CouchDB does not support operation: " \o ast.Operation)
    ELSE CASE ast.Operation \in {OpFind, OpFindOne} -> couchdb_renderFind(ast, <<>>)
           [] ast.Operation = OpInsert -> couchdb_renderInsert(ast, <<>>, ord)
           [] ast.Operation = OpUpdate -> couchdb_renderUpdate(ast, <<>>, ord)
           [] ast.Operation = OpDelete -> couchdb_renderDelete(ast, <<>>)
           [] OTHER -> Failed("unsupported operation: " \o ast.Operation)

-----------------------------------------------------------------------------
(* pkg/firestore *)

\* mapOperator's string; its error is firestore_mapOperatorErr.
firestore_mapOperator(op) ==
    CASE op = OpEQ    -> "=="
      [] op = OpNE    -> "!="
      [] op = OpGT    -> ">"
      [] op = OpGTE   -> ">="
      [] op = OpLT    -> "<"
      [] op = OpLTE   -> "<="
      [] op = OpIN    -> "in"
      [] op = OpNotIn -> "not-in"
      [] op = OpAll   -> "array-contains"
      [] OTHER -> ""

firestore_mapOperatorErr(op) ==
    IF op \in {OpEQ, OpNE, OpGT, OpGTE, OpLT, OpLTE, OpIN, OpNotIn, OpAll}
    THEN NilErr
    ELSE "firestore does not support filter operator: " \o op

\* One entry of the where list.
firestore_where(path, op, name) ==
    JObj(("field" :> JStr(Str(path))) @@ ("operator" :> JStr(Str(op)))
            @@ ("value" :> Placeholder(name)))

RECURSIVE firestore_buildWheres(_, _), firestore_buildConditions(_, _, _, _)
firestore_buildWheres_FallbackToAnd(f, params) ==
    CASE f.kind = "FilterCondition" ->
           IF firestore_mapOperatorErr(f.Operator) # NilErr
           THEN Rendered(<<>>, params, firestore_mapOperatorErr(f.Operator))
           ELSE Rendered(<<firestore_where(f.Field.Path,
                                           firestore_mapOperator(f.Operator),
                                           f.Value.Name)>>,
                         Append(params, f.Value.Name), NilErr)
      [] f.kind = "FilterGroup" ->
           IF f.Logic \in {LogicOR, LogicNOR}
           THEN Rendered(<<>>, params,
                         "firestore only supports AND logic in compound queries")
           ELSE firestore_buildConditions(f.Conditions, 1, params, <<>>)
      [] f.kind = "RangeFilter" ->
           LET lo == IF f.Min = NilPtr THEN <<>>
                     ELSE <<firestore_where(f.Field.Path,
                                            IF f.MinExclusive THEN ">" ELSE ">=",
                                            f.Min[1].Name)>>
               hi == IF f.Max = NilPtr THEN <<>>
                     ELSE <<firestore_where(f.Field.Path,
                                            IF f.MaxExclusive THEN "<" ELSE "<=",
                                            f.Max[1].Name)>>
               p1 == IF f.Min = NilPtr THEN params ELSE Append(params, f.Min[1].Name)
               p2 == IF f.Max = NilPtr THEN p1 ELSE Append(p1, f.Max[1].Name)
           IN  Rendered(lo \o hi, p2, NilErr)
      [] OTHER ->
           Rendered(<<>>, params,
                    "firestore does not support filter type: " \o TypeName(f))

firestore_buildWheres(f, params) ==
    CASE f.kind = "FilterCondition" ->
           IF firestore_mapOperatorErr(f.Operator) # NilErr
           THEN Rendered(<<>>, params, firestore_mapOperatorErr(f.Operator))
           ELSE Rendered(<<firestore_where(f.Field.Path,
                                           firestore_mapOperator(f.Operator),
                                           f.Value.Name)>>,
                         Append(params, f.Value.Name), NilErr)
      [] f.kind = "FilterGroup" ->
           IF f.Logic # LogicAND
           THEN Rendered(<<>>, params,
                         "firestore only supports AND logic in compound queries")
           ELSE firestore_buildConditions(f.Conditions, 1, params, <<>>)
      [] f.kind = "RangeFilter" ->
           LET lo == IF f.Min = NilPtr THEN <<>>
                     ELSE <<firestore_where(f.Field.Path,
                                            IF f.MinExclusive THEN ">" ELSE ">=",
                                            f.Min[1].Name)>>
               hi == IF f.Max = NilPtr THEN <<>>
                     ELSE <<firestore_where(f.Field.Path,
                                            IF f.MaxExclusive THEN "<" ELSE "<=",
                                            f.Max[1].Name)>>
               p1 == IF f.Min = NilPtr THEN params ELSE Append(params, f.Min[1].Name)
               p2 == IF f.Max = NilPtr THEN p1 ELSE Append(p1, f.Max[1].Name)
           IN  Rendered(lo \o hi, p2, NilErr)
      [] OTHER ->
           Rendered(<<>>, params,
                    "firestore does not support filter type: " \o TypeName(f))

\* The loop of the FilterGroup case, from condition i on.
firestore_buildConditions(cs, i, params, wheres) ==
    IF i > Len(cs) THEN Rendered(wheres, params, NilErr)
    ELSE LET r == firestore_buildWheres(cs[i], params)
         IN  IF r.err # NilErr THEN r
             ELSE firestore_buildConditions(cs, i + 1, r.params, wheres \o r.out)

firestore_toResult(query, params) ==
    [res |-> Ptr(QueryResult(Marshal(JObj(query)), params)),
     query |-> JObj(query), err |-> NilErr]

\* query["collection"] and query["operation"], which every render function sets.
firestore_header(ast) ==
    ("collection" :> JStr(Str(ast.Target.Name)))
       @@ ("operation" :> JStr(Str(ast.Operation)))

firestore_renderQuery(ast, params) ==
    LET w  == firestore_buildWheres(ast.FilterClause, params)
        wp == IF ast.FilterClause # NilFilterItem THEN w.params ELSE params
        q1 == IF ast.FilterClause # NilFilterItem
              THEN ("where" :> (IF w.out = <<>> THEN JNull ELSE JArr(w.out)))
                      @@ firestore_header(ast)
              ELSE firestore_header(ast)
        orderBy == [i \in 1..Len(ast.SortClauses) |->
                      JObj(("field" :> JStr(Str(ast.SortClauses[i].Field.Path)))
                           @@ ("direction" :>
                                 JStr(Str(IF ast.SortClauses[i].Order = Descending
                                          THEN "desc" ELSE "asc"))))]
        q2 == IF Len(ast.SortClauses) > 0 THEN ("orderBy" :> JArr(orderBy)) @@ q1
              ELSE q1
        lm == IF ast.Limit # NilPtr THEN renderPagination(ast.Limit[1], wp)
              ELSE Rendered(JNull, wp, NilErr)
        q3 == IF lm.out # JNull THEN ("limit" :> lm.out) @@ q2 ELSE q2
        sk == IF ast.Skip # NilPtr THEN renderPagination(ast.Skip[1], lm.params)
              ELSE Rendered(JNull, lm.params, NilErr)
        q4 == IF sk.out # JNull THEN ("offset" :> sk.out) @@ q3 ELSE q3
        fields == includedFields(ast.Projection[1].Fields, 1)
        q5 == IF ast.Projection # NilPtr /\ Len(fields) > 0
              THEN ("select" :> JArr(fields)) @@ q4 ELSE q4
    IN  IF ast.FilterClause # NilFilterItem /\ w.err # NilErr THEN Failed(w.err)
        ELSE firestore_toResult(q5, sk.params)

firestore_renderAdd(ast, params, ord) ==
    LET data == rangeFields(ast.Documents[1].Fields,
                   RangeOrder(ast.Documents[1].Fields, OrderAt(ord, 1).fields),
                   1, params, EmptyMap)
    IN  IF Len(ast.Documents) > 0
        THEN firestore_toResult(("data" :> JObj(data.out)) @@ firestore_header(ast),
                                data.params)
        ELSE firestore_toResult(firestore_header(ast), params)

\* The range over op.Fields, visiting the fields in the order keys.
RECURSIVE firestore_dataFrom(_, _, _, _, _)
firestore_dataFrom(op, keys, i, params, data) ==
    IF i > Len(keys) THEN Rendered(data, params, NilErr)
    ELSE IF op.Operator = UpdateUnset
    THEN firestore_dataFrom(op, keys, i + 1, params,
            MapSet(data, keys[i].Path, JStr(Str("FieldValue.delete()"))))
    ELSE firestore_dataFrom(op, keys, i + 1,
            Append(params, op.Fields[keys[i]].Name),
            MapSet(data, keys[i].Path, Placeholder(op.Fields[keys[i]].Name)))

\* The loop over ast.UpdateOps, from operation i on.
RECURSIVE firestore_updateOpsFrom(_, _, _, _, _)
firestore_updateOpsFrom(ops, i, params, data, ord) ==
    IF i > Len(ops) THEN Rendered(data, params, NilErr)
    ELSE IF ops[i].Operator # UpdateSet /\ ops[i].Operator # UpdateUnset
    THEN Rendered(data, params,
                  "firestore does not support update operator: " \o ops[i].Operator)
    ELSE LET r == firestore_dataFrom(ops[i],
                     RangeOrder(ops[i].Fields, OrderAt(ord, i).fields),
                     1, params, data)
         IN  firestore_updateOpsFrom(ops, i + 1, r.params, r.out, ord)

firestore_renderUpdate(ast, params, ord) ==
    LET d == firestore_updateOpsFrom(ast.UpdateOps, 1, params, EmptyMap, ord)
    IN  IF d.err # NilErr THEN Failed(d.err)
        ELSE firestore_toResult(("data" :> JObj(d.out)) @@ firestore_header(ast),
                                d.params)

firestore_renderDelete(ast, params) ==
    firestore_toResult(firestore_header(ast), params)

firestore_SupportsOperation(op) ==
    op \in {OpFind, OpFindOne, OpInsert, OpUpdate, OpDelete}

firestore_SupportsFilter(op) ==
    op \in {OpEQ, OpNE, OpGT, OpGTE, OpLT, OpLTE, OpIN, OpNotIn, OpAll}

firestore_SupportsUpdate(op) == op \in {UpdateSet, UpdateUnset}

firestore_SupportsPipelineStage(stage) == FALSE

firestore_Render_SupportFirst(ast, ord) ==
    IF ~firestore_SupportsOperation(ast.Operation)
    THEN Failed("firestore does not support operation: " \o ast.Operation)
    ELSE IF Validate(ast) # NilErr THEN Failed("invalid AST: " \o Validate(ast))
    ELSE CASE ast.Operation \in {OpFind, OpFindOne} -> firestore_renderQuery(ast, <<>>)
           [] ast.Operation = OpInsert -> firestore_renderAdd(ast, <<>>, ord)
           [] ast.Operation = OpUpdate -> firestore_renderUpdate(ast, <<>>, ord)
           [] ast.Operation = OpDelete -> firestore_renderDelete(ast, <<>>)
           [] OTHER -> Failed("unsupported operation: " \o ast.Operation)

firestore_Render(ast, ord) ==
    IF Validate(ast) # NilErr THEN Failed("invalid AST: " \o Validate(ast))
    ELSE IF ~firestore_SupportsOperation(ast.Operation)
    THEN Failed("firestore does not support operation: " \o ast.Operation)
    ELSE CASE ast.Operation \in {OpFind, OpFindOne} -> firestore_renderQuery(ast, <<>>)
           [] ast.Operation = OpInsert -> firestore_renderAdd(ast, <<>>, ord)
           [] ast.Operation = OpUpdate -> firestore_renderUpdate(ast, <<>>, ord)
           [] ast.Operation = OpDelete -> firestore_renderDelete(ast, <<>>)
           [] OTHER -> Failed("unsupported operation: " \o ast.Operation)

-----------------------------------------------------------------------------
(* instance.go: identifiers.  A name is the sequence of its characters. *)

LowerLetters ==
    <<"a", "b", "c", "d", "e", "f", "g", "h", "i", "j", "k", "l", "m",
      "n", "o", "p", "q", "r", "s", "t", "u", "v", "w", "x", "y", "z">>
UpperLetters ==
    <<"A", "B", "C", "D", "E", "F", "G", "H", "I", "J", "K", "L", "M",
      "N", "O", "P", "Q", "R", "S", "T", "U", "V", "W", "X", "Y", "Z">>
DigitChars == {"0", "1", "2", "3", "4", "5", "6", "7", "8", "9"}

\* The grave accent (U+0060), which no string of this language can hold.
Backtick == "U+0060"

IsLower(r) == \E i \in DOMAIN LowerLetters : LowerLetters[i] = r
IsUpper(r) == \E i \in DOMAIN UpperLetters : UpperLetters[i] = r

\* The string of a sequence of characters.
RECURSIVE StringOf(_)
StringOf(s) == IF s = <<>> THEN "" ELSE s[1] \o StringOf(Tail(s))

\* strings.ToLower
ToLower(s) ==
    [i \in DOMAIN s |->
        IF IsUpper(s[i])
        THEN LowerLetters[CHOOSE k \in DOMAIN UpperLetters : UpperLetters[k] = s[i]]
        ELSE s[i]]

\* strings.Contains
Contains(s, substr) ==
    \E i \in 0..(Len(s) - Len(substr)) :
       \A k \in DOMAIN substr : s[i + k] = substr[k]

suspiciousPatterns_BareKeywords ==
    <<<<";">>, <<"-", "-">>, <<"/", "*">>, <<"*", "/">>, <<"'">>, <<"\"">>, <<Backtick>>,
      <<"\\">>,
      <<"o", "r">>, <<"a", "n", "d">>,
      <<"d", "r", "o", "p">>, <<"d", "e", "l", "e", "t", "e">>,
      <<"i", "n", "s", "e", "r", "t">>, <<"u", "p", "d", "a", "t", "e">>,
      <<"s", "e", "l", "e", "c", "t">>, <<"u", "n", "i", "o", "n">>,
      <<"e", "x", "e", "c">>, <<"e", "x", "e", "c", "u", "t", "e">>>>

suspiciousPatterns ==
    <<<<";">>, <<"-", "-">>, <<"/", "*">>, <<"*", "/">>, <<"'">>, <<"\"">>, <<Backtick>>,
      <<"\\">>,
      <<" ", "o", "r", " ">>, <<" ", "a", "n", "d", " ">>,
      <<"d", "r", "o", "p", " ">>, <<"d", "e", "l", "e", "t", "e", " ">>,
      <<"i", "n", "s", "e", "r", "t", " ">>, <<"u", "p", "d", "a", "t", "e", " ">>,
      <<"s", "e", "l", "e", "c", "t", " ">>, <<"u", "n", "i", "o", "n", " ">>,
      <<"e", "x", "e", "c", " ">>, <<"e", "x", "e", "c", "u", "t", "e", " ">>>>

\* The rune loop of isValidIdentifier: a letter or '_' first, then letters,
\* digits and '_'.
RunesValid(s) ==
    \A i \in DOMAIN s :
       IF i = 1
       THEN IsLower(s[i]) \/ IsUpper(s[i]) \/ s[i] = "_"
       ELSE IsLower(s[i]) \/ IsUpper(s[i]) \/ s[i] \in DigitChars \/ s[i] = "_"

isValidIdentifier_NoRuneLoop(s) ==
    IF s = <<>> THEN FALSE
    ELSE IF Contains(s, <<" ">>) THEN FALSE
    ELSE \A k \in DOMAIN suspiciousPatterns :
            ~Contains(ToLower(s), suspiciousPatterns[k])

isValidIdentifier(s) ==
    IF s = <<>> THEN FALSE
    ELSE IF Contains(s, <<" ">>) THEN FALSE
    ELSE IF ~RunesValid(s) THEN FALSE
    ELSE \A k \in DOMAIN suspiciousPatterns :
            ~Contains(ToLower(s), suspiciousPatterns[k])

\* (types.Param, error)
TryP(name) ==
    IF ~isValidIdentifier(name)
    THEN [param |-> Param(""), err |-> "invalid parameter name: " \o StringOf(name)]
    ELSE [param |-> Param(StringOf(name)), err |-> NilErr]

\* P returns the Param or panics with TryP's error.
P(name) ==
    IF TryP(name).err # NilErr
    THEN [param |-> Param(""), err |-> TryP(name).err, panic |-> TRUE]
    ELSE [param |-> TryP(name).param, err |-> NilErr, panic |-> FALSE]

-----------------------------------------------------------------------------
(* instance.go: the schema index and the schema-checked constructors *)

\* The field types of a schema that indexFields tells apart.
TypeString == "string"
TypeInt    == "int"
TypeObject == "object"
TypeArray  == "array"

\* ddml.Field: a name, a type, the fields of an object and the element of an
\* array (a pointer).
SchemaField(name, type, fields, arrayOf) ==
    [Name |-> name, Type |-> type, Fields |-> fields, ArrayOf |-> arrayOf]

\* strings.Split(s, sep) for a separator of one character.
RECURSIVE Split(_, _)
Split(s, sep) ==
    IF \A i \in DOMAIN s : s[i] # sep THEN <<s>>
    ELSE LET i == CHOOSE k \in DOMAIN s : s[k] = sep /\ \A j \in 1..(k - 1) : s[j] # sep
         IN  <<SubSeq(s, 1, i - 1)>> \o Split(SubSeq(s, i + 1, Len(s)), sep)

\* The rune loop over one part of a field path: as for an identifier, with '$'
\* allowed first.
PartValid(part) ==
    \A i \in DOMAIN part :
       IF i = 1
       THEN IsLower(part[i]) \/ IsUpper(part[i]) \/ part[i] = "_" \/ part[i] = "$"
       ELSE IsLower(part[i]) \/ IsUpper(part[i]) \/ part[i] \in DigitChars
            \/ part[i] = "_"

isValidFieldPath(s) ==
    IF s = <<>> THEN FALSE
    ELSE IF Contains(s, <<" ">>) THEN FALSE
    ELSE IF \E k \in DOMAIN Split(s, ".") :
               Split(s, ".")[k] = <<>> \/ ~PartValid(Split(s, ".")[k])
    THEN FALSE
    ELSE \A k \in DOMAIN suspiciousPatterns :
            ~Contains(ToLower(s), suspiciousPatterns[k])

\* d.indexFields(collName, prefix, fields) from the i-th field on: index is
\* d.fields[collName], a map from path to field.
RECURSIVE indexFields_ObjectsOnly(_, _, _, _)
indexFields_ObjectsOnly(index, prefix, fields, i) ==
    IF i > Len(fields) THEN index
    ELSE LET f    == fields[i]
             path == IF prefix # <<>> THEN prefix \o <<".">> \o f.Name ELSE f.Name
             m1   == (path :> f) @@ index
             m2   == IF f.Type = TypeObject /\ Len(f.Fields) > 0
                     THEN indexFields_ObjectsOnly(m1, path, f.Fields, 1)
                     ELSE m1
         IN  indexFields_ObjectsOnly(m2, prefix, fields, i + 1)

RECURSIVE indexFields(_, _, _, _)
indexFields(index, prefix, fields, i) ==
    IF i > Len(fields) THEN index
    ELSE LET f    == fields[i]
             path == IF prefix # <<>> THEN prefix \o <<".">> \o f.Name ELSE f.Name
             m1   == (path :> f) @@ index
             m2   == IF f.Type = TypeObject /\ Len(f.Fields) > 0
                     THEN indexFields(m1, path, f.Fields, 1)
                     ELSE m1
             m3   == IF f.Type = TypeArray /\ f.ArrayOf # NilPtr
                        /\ f.ArrayOf[1].Type = TypeObject
                     THEN indexFields(m2, path, f.ArrayOf[1].Fields, 1)
                     ELSE m2
         IN  indexFields(m3, prefix, fields, i + 1)

\* NewFromDDML(schema) for a schema that is not nil: schema.Collections maps
\* each collection name to the fields of the collection.
NewFromDDML(schema) ==
    [collections |-> schema.Collections,
     fields      |-> [name \in DOMAIN schema.Collections |->
                        indexFields(<<>>, <<>>, schema.Collections[name], 1)]]

\* (types.Collection, error)
TryC(d, name) ==
    IF ~isValidIdentifier(name)
    THEN [value |-> Collection(""),
          err |-> "invalid collection name: " \o StringOf(name)]
    ELSE IF name \notin DOMAIN d.collections
    THEN [value |-> Collection(""),
          err |-> "collection '" \o StringOf(name) \o "' not found in schema"]
    ELSE [value |-> Collection(StringOf(name)), err |-> NilErr]

\* (types.Field, error)
TryF(d, collectionName, fieldPath) ==
    IF ~isValidFieldPath(fieldPath)
    THEN [value |-> Field("", ""),
          err |-> "invalid field path: " \o StringOf(fieldPath)]
    ELSE IF collectionName \notin DOMAIN d.fields
    THEN [value |-> Field("", ""),
          err |-> "collection '" \o StringOf(collectionName) \o "' not found"]
    ELSE IF fieldPath \notin DOMAIN d.fields[collectionName]
    THEN [value |-> Field("", ""),
          err |-> "field '" \o StringOf(fieldPath) \o "' not found in collection '"
                  \o StringOf(collectionName) \o "'"]
    ELSE [value |-> Field(StringOf(fieldPath), StringOf(collectionName)),
          err |-> NilErr]

-----------------------------------------------------------------------------
(* Rendering through the Renderer interface *)

Renderers == {"mongodb", "dynamodb", "firestore", "couchdb"}

\* renderer.Render(ast)
RendererRender(renderer, ast, ord) ==
    CASE renderer = "mongodb"   -> mongodb_Render(ast, ord)
      [] renderer = "dynamodb"  -> dynamodb_Render(ast, ord)
      [] renderer = "firestore" -> firestore_Render(ast, ord)
      [] renderer = "couchdb"   -> couchdb_Render(ast, ord)

\* Builder.Render
Render(b, renderer, ord) ==
    IF Build(b).err # NilErr THEN Failed(Build(b).err)
    ELSE RendererRender(renderer, b.ast, ord)

\* One Render call as the caller saw it: the renderer, the AST it was given
\* and what came back.
RenderCall(renderer, ast, r) ==
    [renderer |-> renderer, ast |-> ast, res |-> r.res, query |-> r.query,
     err |-> r.err]

-----------------------------------------------------------------------------
(* The values the calls are made with *)

Users == Collection("users")

F1 == Field("name", "users")
F2 == Field("age", "users")
Fields == {F1, F2}

P1 == Param("v1")
P2 == Param("v2")
Params == {P1, P2}

FilterArgs == {Eq(F1, P1), Gt(F2, P2), Or(<<Eq(F1, P1), Eq(F2, P2)>>)}

FieldLists == {<<>>, <<F1>>, <<F1, F2>>}

D1 == DocumentOf(F1 :> P1)
D2 == DocumentOf((F1 :> P1) @@ (F2 :> P2))

DocLists ==
    {<<>>, <<D2, D1>>, [i \in 1..MaxBatchSize |-> D1],
     [i \in 1..MaxBatchSize + 1 |-> D1]}

LimitArgs == {10, MaxLimit, MaxLimit + 1}

SkipArgs == {5}

DocArgs == {D1, D2}

StageArgs == {CountStage("n")}

ProjectArgs == {Projection(<<ProjectionField(F1, TRUE)>>, FALSE)}

GroupIDs == {FieldExpression(F1)}

GroupAccs == {"total" :> Accumulator(AccSum, FieldExpression(F2))}

\* The characters short names are made of, and the names and paths given to
\* P, TryP, TryC and TryF: every name of at most MaxNameLen of these
\* characters, and some longer ones.
NameAlphabet ==
    {"a", "E", "_", "1", " ", "\t", ";", "-", "/", "*", "'", "\"", Backtick, "\\",
     ".", "$"}

Names ==
    UNION {[1..n -> NameAlphabet] : n \in 0..MaxNameLen}
    \cup
    {<<"v", "1">>,
     <<"u", "s", "e", "r", "_", "i", "d">>,
     <<"_", "x", "9">>,
     <<"e", "x", "e", "c">>,
     <<"E", "X", "E", "C">>,
     <<"e", "x", "e", "c", "u", "t", "o", "r">>,
     <<"e", "x", "e", "c", " ", "x">>,
     <<"E", "x", "e", "c", "u", "t", "e", " ", "x">>,
     <<"a", " ", "o", "r", " ", "b">>,
     <<"x", " ", "A", "N", "D", " ", "y">>,
     <<"d", "r", "o", "p", " ", "t">>,
     <<"D", "R", "O", "P", " ", "t">>,
     <<"d", "e", "l", "e", "t", "e", " ", "x">>,
     <<"i", "n", "s", "e", "r", "t", " ", "x">>,
     <<"u", "p", "d", "a", "t", "e", " ", "x">>,
     <<"s", "e", "l", "e", "c", "t", " ", "x">>,
     <<"U", "n", "i", "o", "n", " ", "x">>,
     <<"a", "-", "-", "b">>,
     <<"a", "/", "*", "b">>,
     <<"a", "*", "/">>,
     <<"a", "\n", "b">>,
     <<"9", "a">>}
    \cup
    {<<"u", "s", "e", "r", "s">>,
     <<"n", "a", "m", "e">>,
     <<"n", "u", "m", "s">>,
     <<"e", "m", "p", "t", "y">>,
     <<"c", "i", "t", "y">>,
     <<"a", "d", "d", "r", "e", "s", "s", ".", "c", "i", "t", "y">>,
     <<"a", "d", "d", "r", "e", "s", "s", ".", "g", "e", "o">>,
     <<"a", "d", "d", "r", "e", "s", "s", ".", "g", "e", "o", ".", "l", "a", "t">>,
     <<"g", "e", "o", ".", "l", "a", "t">>,
     <<"a", "d", "d", "r", "e", "s", "s", ".", "l", "a", "t">>,
     <<"t", "a", "g", "s", ".", "l", "a", "b", "e", "l">>,
     <<"t", "a", "g", "s", ".", "0", ".", "l", "a", "b", "e", "l">>,
     <<"n", "u", "m", "s", ".", "l", "a", "b", "e", "l">>,
     <<"g", "r", "i", "d", ".", "x">>,
     <<"e", "m", "p", "t", "y", ".", "x">>,
     <<"n", "a", "m", "e", ".", "x">>,
     <<"a", "d", "d", "r", "e", "s", "s", ".">>,
     <<"a", "d", "d", "r", "e", "s", "s", ".", ".", "c", "i", "t", "y">>,
     <<"$", "s", "e", "t">>,
     <<"a", ".", "$", "b">>,
     <<"a", "$", "b">>,
     <<"A", "d", "d", "r", "e", "s", "s", ".", "c", "i", "t", "y">>,
     <<"e", "x", "e", "c", ".", "x">>,
     <<"a", ".", "E", ".", "x">>}

\* The schema of the instance: collection "users" with scalar fields, nested
\* objects, an array of objects, an array of scalars, an array of arrays of
\* objects and an object without fields; collection "a" with short names.
UsersFields ==
    <<SchemaField(<<"n", "a", "m", "e">>, TypeString, <<>>, NilPtr),
      SchemaField(<<"a", "g", "e">>, TypeInt, <<>>, NilPtr),
      SchemaField(<<"a", "d", "d", "r", "e", "s", "s">>, TypeObject, 
          <<SchemaField(<<"c", "i", "t", "y">>, TypeString, <<>>, NilPtr),
            SchemaField(<<"g", "e", "o">>, TypeObject, <<SchemaField(<<"l", "a", "t">>, TypeInt, <<>>, NilPtr)>>, NilPtr)>>, NilPtr),
      SchemaField(<<"t", "a", "g", "s">>, TypeArray, <<>>, 
          Ptr(SchemaField(<<>>, TypeObject, <<SchemaField(<<"l", "a", "b", "e", "l">>, TypeString, <<>>, NilPtr)>>, NilPtr))),
      SchemaField(<<"n", "u", "m", "s">>, TypeArray, <<>>, Ptr(SchemaField(<<>>, TypeInt, <<>>, NilPtr))),
      SchemaField(<<"g", "r", "i", "d">>, TypeArray, <<>>, 
          Ptr(SchemaField(<<>>, TypeArray, <<>>, 
              Ptr(SchemaField(<<>>, TypeObject, <<SchemaField(<<"x">>, TypeString, <<>>, NilPtr)>>, NilPtr))))),
      SchemaField(<<"e", "m", "p", "t", "y">>, TypeObject, <<>>, NilPtr)>>

ShortFields ==
    <<SchemaField(<<"a">>, TypeObject, <<SchemaField(<<"E">>, TypeString, <<>>, NilPtr)>>, NilPtr),
      SchemaField(<<"_", "1">>, TypeInt, <<>>, NilPtr)>>

TestSchema ==
    [Collections |-> (<<"u", "s", "e", "r", "s">> :> UsersFields) @@ (<<"a">> :> ShortFields)]

\* The collection names given to TryF.
CollectionArgs == {<<"u", "s", "e", "r", "s">>, <<"a">>, <<"n", "o", "p", "e">>}

\* Struct literals: every combination of the fields below over every operation.
LiteralTargets == {Users, Collection("")}
LiteralFilters == {NilFilterItem, Eq(F1, P1), And(<<Eq(F1, P1), Gt(F2, P2)>>)}
LiteralLimits ==
    {NilPtr, Ptr(PaginationValue(Ptr(MaxLimit), NilPtr)),
     Ptr(PaginationValue(Ptr(MaxLimit + 1), NilPtr)),
     Ptr(PaginationValue(NilPtr, Ptr(P2)))}
LiteralDocuments == {<<>>, <<D2>>, <<D1, D2>>}
LiteralUpdateOps == {<<>>, <<UpdateOperation(UpdateSet, (F1 :> P1) @@ (F2 :> P2))>>}

\* f wrapped in n FilterGroups, one inside the other.
RECURSIVE Nested(_, _)
Nested(n, f) == IF n = 0 THEN f ELSE And(<<Nested(n - 1, f)>>)

\* Filters of every variant, every operator and every logic kind.
ProbeFilters ==
    {FilterCondition(F1, op, P1) : op \in FilterOperators}
    \cup {Exists(F1), Regex(F1, P1), All(F1, P1), Size(F1, P1), TextSearch(P1),
          Range(F2, Ptr(P1), Ptr(P2)), Range(F2, Ptr(P1), NilPtr),
          Geo(F1, P1, P2, P1),
          ElemMatch(F1, <<Gt(F2, P1), FilterCondition(F2, OpLT, P2)>>),
          ElemMatch(F1, <<Eq(F1, P1), Gt(F2, P2)>>)}
    \cup {FilterGroup(logic, <<Eq(F1, P1), Gt(F2, P2)>>)
             : logic \in {LogicAND, LogicOR, LogicNOR, LogicNOT, ""}}
    \cup {And(<<Eq(F1, P1), FilterGroup(logic, <<Gt(F2, P2)>>)>>)
             : logic \in {LogicAND, LogicOR, LogicNOR, LogicNOT}}

\* Filters nested up to and beyond MaxFilterDepth.
DeepFilters ==
    {Nested(n, f) : n \in {MaxFilterDepth, MaxFilterDepth + 1, MaxFilterDepth + 2},
                    f \in {Eq(F1, P1), And(<<>>)}}

\* Updates of one operator each, and of two.
ProbeUpdateOps ==
    {<<UpdateOperation(op, F1 :> P1)>> : op \in UpdateOperators}
    \cup {<<UpdateOperation(UpdateSet, F1 :> P1), UpdateOperation(op, F2 :> P2)>>
             : op \in {UpdateUnset, UpdateInc, UpdatePush}}

\* One stage of every PipelineStage variant.
ProbeStages ==
    {MatchStage(Eq(F1, P1)),
     ProjectStage(Projection(<<ProjectionField(F1, TRUE)>>, FALSE), EmptyMap),
     GroupStage(FieldExpression(F1), EmptyMap),
     SortStage(<<SortClause(F1, Ascending)>>),
     LimitStage(PaginationValue(Ptr(5), NilPtr)),
     SkipStage(PaginationValue(NilPtr, Ptr(P1))),
     UnwindStage(F1),
     LookupStage("orders", F1, F2, "o"),
     AddFieldsStage("total" :> FieldExpression(F2)),
     ReplaceRootStage(FieldExpression(F1)),
     CountStage("n"),
     FacetStage("total" :> <<CountStage("n")>>),
     BucketStage(FieldExpression(F2), <<P1, P2>>)}

ProbePipelines ==
    {<<s>> : s \in ProbeStages}
    \cup {<<MatchStage(Eq(F1, P1)), s>>
             : s \in {CountStage("n"), FacetStage("total" :> <<CountStage("n")>>)}}

\* What DeleteMany(c).Filter(And()) and UpdateMany(c).Set(f, p).Filter(And())
\* build.
EmptyGroupASTs ==
    {[DocumentAST(OpDeleteMany, Users) EXCEPT !.FilterClause = And(<<>>)],
     [DocumentAST(OpUpdateMany, Users) EXCEPT
         !.FilterClause = And(<<>>),
         !.UpdateOps = <<UpdateOperation(UpdateSet, F1 :> P1)>>]}

\* Aggregate, Count and Distinct with sort clauses, a skip and a limit, as
\* Sort, Skip, SkipParam, Limit and LimitParam store them.
ModifiedReadASTs ==
    {[a EXCEPT !.SortClauses = sc, !.Skip = sk, !.Limit = lm]
        : a \in {[DocumentAST(OpAggregate, Users) EXCEPT
                      !.Pipeline = <<MatchStage(Eq(F1, P1))>>],
                 DocumentAST(OpCount, Users),
                 [DocumentAST(OpDistinct, Users) EXCEPT !.DistinctField = Ptr(F1)]},
          sc \in {<<SortClause(F2, Descending)>>},
          sk \in {Ptr(PaginationValue(Ptr(5), NilPtr)), Ptr(PaginationValue(NilPtr, Ptr(P2)))},
          lm \in {Ptr(PaginationValue(Ptr(10), NilPtr)), Ptr(PaginationValue(NilPtr, Ptr(P2)))}}

\* Finds with two sort clauses: on two fields in either order, and on one
\* field in either order of the directions.
SortedASTs ==
    {[DocumentAST(OpFind, Users) EXCEPT !.SortClauses = sc]
        : sc \in {<<SortClause(F1, Ascending), SortClause(F2, Descending)>>,
                  <<SortClause(F2, Descending), SortClause(F1, Ascending)>>,
                  <<SortClause(F1, Ascending), SortClause(F1, Descending)>>,
                  <<SortClause(F1, Descending), SortClause(F1, Ascending)>>}}

\* What Insert(c).Document(d).Filter(f) and InsertMany(c).Documents(d, d)
\* .Filter(f) build.
FilteredInsertASTs ==
    {[DocumentAST(OpInsert, Users) EXCEPT !.Documents = <<D1>>, !.FilterClause = Gt(F2, P2)],
     [DocumentAST(OpInsertMany, Users) EXCEPT
         !.Documents = <<D1, D1>>, !.FilterClause = Gt(F2, P2)]}

\* The ASTs that goroutines render at the same time.
SharedASTs ==
    {[DocumentAST(OpFind, Users) EXCEPT
         !.FilterClause = And(<<Eq(F1, P1), Gt(F2, P2)>>),
         !.SortClauses = <<SortClause(F1, Ascending)>>,
         !.Limit = Ptr(PaginationValue(NilPtr, Ptr(P2)))],
     [DocumentAST(OpInsert, Users) EXCEPT !.Documents = <<D2>>],
     [DocumentAST(OpUpdateMany, Users) EXCEPT
         !.UpdateOps = <<UpdateOperation(UpdateSet, F1 :> P1)>>]}

\* Struct literals that probe the capabilities of the dialects and the limits
\* of validation.
ProbeASTs ==
    {[DocumentAST(OpFind, Users) EXCEPT !.FilterClause = f] : f \in ProbeFilters}
    \cup
    {[DocumentAST(op, Users) EXCEPT !.FilterClause = f]
        : op \in {OpFind, OpDelete, OpCount}, f \in DeepFilters}
    \cup
    {[DocumentAST(OpUpdate, Users) EXCEPT !.FilterClause = Eq(F1, P1), !.UpdateOps = u]
        : u \in ProbeUpdateOps}
    \cup
    {[DocumentAST(OpAggregate, Users) EXCEPT !.Pipeline = pl] : pl \in ProbePipelines}
    \cup EmptyGroupASTs
    \cup ModifiedReadASTs
    \cup SortedASTs
    \cup FilteredInsertASTs

DirectASTs ==
    {[DocumentAST(op, c) EXCEPT !.FilterClause = f, !.Limit = l]
        : op \in {OpFind, OpFindOne, OpDelete, OpDeleteMany, OpCount},
          c \in LiteralTargets, f \in LiteralFilters, l \in LiteralLimits}
    \cup
    {[DocumentAST(op, Users) EXCEPT !.Documents = d]
        : op \in {OpInsert, OpInsertMany}, d \in LiteralDocuments}
    \cup
    {[DocumentAST(op, Users) EXCEPT !.FilterClause = f, !.UpdateOps = u]
        : op \in {OpUpdate, OpUpdateMany}, f \in LiteralFilters, u \in LiteralUpdateOps}
    \cup
    {[DocumentAST(OpAggregate, Users) EXCEPT !.Pipeline = pl]
        : pl \in {<<>>, <<CountStage("n")>>}}
    \cup
    {[DocumentAST(OpDistinct, Users) EXCEPT !.DistinctField = df]
        : df \in {NilPtr, Ptr(F1)}}
    \cup
    {DocumentAST("MERGE", Users)}

\* The sequences that hold every element of S once.
Orderings(S) ==
    {s \in [1..Cardinality(S) -> S] : \A i, j \in DOMAIN s : s[i] = s[j] => i = j}

AccumulatorNames == {"total"}

\* The goroutines that share one Builder or one AST.
Goroutines == {1, 2}

\* The orders a range over a Go map can take: a ranking of the fields (for
\* maps keyed by Field) and of the names (for maps keyed by string).
Prefs ==
    {[fields |-> f, names |-> n] : f \in Orderings(Fields),
                                    n \in Orderings(AccumulatorNames)}

\* One ranking for each range statement of a walk.
Orders == [1..MaxRanges -> Prefs]

NewBuilders ==
    {Find(Users), FindOne(Users), Insert(Users), InsertMany(Users), Update(Users),
     UpdateMany(Users), Delete(Users), DeleteMany(Users), Aggregate(Users),
     Count(Users), Distinct(Users, F1)}

-----------------------------------------------------------------------------------------------------------------------------------------------------
(* The specification: one caller chaining calls on one Builder *)

InitBuilder ==
    /\ builder \in NewBuilders
    /\ built = <<>>
    /\ results = <<>>
    /\ validated = <<>>
    /\ direct = <<>>
    /\ ncalls = 0
    /\ last = [name |-> "new", args |-> <<>>]
    /\ session = "chain"
    /\ made = <<>>
    /\ instance = NewFromDDML(TestSchema)
    /\ found = <<>>
    /\ procs = <<>>

\* A caller that builds a write and calls only Filter, Document, Documents,
\* Set and Build.
InitWrite ==
    /\ builder \in {Insert(Users), InsertMany(Users), UpdateMany(Users), DeleteMany(Users)}
    /\ built = <<>>
    /\ results = <<>>
    /\ validated = <<>>
    /\ direct = <<>>
    /\ ncalls = 0
    /\ last = [name |-> "new", args |-> <<>>]
    /\ session = "write"
    /\ made = <<>>
    /\ instance = NewFromDDML(TestSchema)
    /\ found = <<>>
    /\ procs = <<>>

\* A caller that writes a DocumentAST literal and calls no Builder method.
InitDirect ==
    /\ builder = Find(Users)
    /\ built = <<>>
    /\ results = <<>>
    /\ validated = <<>>
    /\ direct \in {<<a>> : a \in DirectASTs}
    /\ ncalls = 0
    /\ last = [name |-> "literal", args |-> <<>>]
    /\ session = "literal"
    /\ made = <<>>
    /\ instance = NewFromDDML(TestSchema)
    /\ found = <<>>
    /\ procs = <<>>

\* A caller that writes a probing DocumentAST literal, to validate it and to
\* render it once.
InitProbe ==
    /\ builder = Find(Users)
    /\ built = <<>>
    /\ results = <<>>
    /\ validated = <<>>
    /\ direct \in {<<a>> : a \in ProbeASTs}
    /\ ncalls = 0
    /\ last = [name |-> "literal", args |-> <<>>]
    /\ session = "probe"
    /\ made = <<>>
    /\ instance = NewFromDDML(TestSchema)
    /\ found = <<>>
    /\ procs = <<>>

\* A caller that makes one Param, with P or TryP.
InitParam ==
    /\ builder = Find(Users)
    /\ built = <<>>
    /\ results = <<>>
    /\ validated = <<>>
    /\ direct = <<>>
    /\ ncalls = 0
    /\ last = [name |-> "instance", args |-> <<>>]
    /\ session = "param"
    /\ made = <<>>
    /\ instance = NewFromDDML(TestSchema)
    /\ found = <<>>
    /\ procs = <<>>

\* A caller that chains Filter calls on a Find or FindOne builder, one leaf
\* filter each, and then calls Build.
InitDeep ==
    /\ builder \in {Find(Users), FindOne(Users)}
    /\ built = <<>>
    /\ results = <<>>
    /\ validated = <<>>
    /\ direct = <<>>
    /\ ncalls = 0
    /\ last = [name |-> "new", args |-> <<>>]
    /\ session = "deep"
    /\ made = <<>>
    /\ instance = NewFromDDML(TestSchema)
    /\ found = <<>>
    /\ procs = <<>>

\* Two goroutines that each call Filter once on one fresh Builder.  Each is at
\* "start", has made the checks of Filter ("then": it found no filter, "else":
\* it found one), has loaded the filter it found ("loaded"), or is "done".
InitRace ==
    /\ builder \in {Find(Users), DeleteMany(Users)}
    /\ built = <<>>
    /\ results = <<>>
    /\ validated = <<>>
    /\ direct = <<>>
    /\ ncalls = 0
    /\ last = [name |-> "new", args |-> <<>>]
    /\ session = "race"
    /\ made = <<>>
    /\ instance = NewFromDDML(TestSchema)
    /\ found = <<>>
    /\ procs \in {[g \in Goroutines |->
                     [pc |-> "start", arg |-> args[g], branch |-> "", seen |-> NilFilterItem]]
                  : args \in [Goroutines -> FilterArgs]}

\* Goroutines that each call Render once on one AST.  Each is at "start", is
\* "running" with its own parameter list and output map, or is "done" and
\* holds what it made; out is the place of what it returned in results.
InitRenders ==
    /\ builder = Find(Users)
    /\ built = <<>>
    /\ results = <<>>
    /\ validated = <<>>
    /\ direct \in {<<a>> : a \in SharedASTs}
    /\ ncalls = 0
    /\ last = [name |-> "literal", args |-> <<>>]
    /\ session = "renders"
    /\ made = <<>>
    /\ instance = NewFromDDML(TestSchema)
    /\ found = <<>>
    /\ procs = [g \in Goroutines |->
                  [pc |-> "start", renderer |-> "", params |-> <<>>, query |-> JNull,
                   out |-> 0]]

Init ==
    \/ InitBuilder \/ InitWrite \/ InitDirect \/ InitProbe \/ InitParam \/ InitDeep
    \/ InitRace \/ InitRenders

\* A chained call of a caller with max calls to make: the builder becomes nb.
ChainWithin(max, name, args, nb) ==
    /\ ncalls < max
    /\ builder' = nb
    /\ ncalls' = ncalls + 1
    /\ last' = [name |-> name, args |-> args]
    /\ UNCHANGED <<built, results, validated, direct, session, made, instance, found, procs>>

Chain(name, args, nb) ==
    session = "chain" /\ ChainWithin(MaxCalls, name, args, nb)

Write(name, args, nb) ==
    session = "write" /\ ChainWithin(MaxWriteCalls, name, args, nb)

CallFilter     == \E f \in FilterArgs : Chain("Filter", <<f>>, Filter(builder, f))
CallWhere      == \E f \in {Eq(F1, P1)} : Chain("Where", <<f>>, Where(builder, f))
CallSelect     == \E fs \in FieldLists : Chain("Select", <<fs>>, Select(builder, fs))
CallExclude    == \E fs \in {<<F2>>} : Chain("Exclude", <<fs>>, Exclude(builder, fs))
CallSort       == \E f \in Fields, o \in {Ascending, Descending} :
                      Chain("Sort", <<f, o>>, Sort(builder, f, o))
CallSortAsc    == \E f \in {F1} : Chain("SortAsc", <<f>>, SortAsc(builder, f))
CallSortDesc   == \E f \in {F2} : Chain("SortDesc", <<f>>, SortDesc(builder, f))
CallSkip       == \E n \in SkipArgs : Chain("Skip", <<n>>, Skip(builder, n))
CallSkipParam  == \E p \in {P1} : Chain("SkipParam", <<p>>, SkipParam(builder, p))
CallLimit      == \E n \in LimitArgs : Chain("Limit", <<n>>, Limit(builder, n))
CallLimitParam == \E p \in {P2} : Chain("LimitParam", <<p>>, LimitParam(builder, p))
CallDocument   == \E d \in DocArgs : Chain("Document", <<d>>, Document(builder, d))
CallDocuments  == \E ds \in DocLists : Chain("Documents", <<ds>>, Documents(builder, ds))
CallSet        == \E f \in Fields, p \in Params :
                      Chain("Set", <<f, p>>, Set(builder, f, p))
CallUnset      == \E fs \in FieldLists : Chain("Unset", <<fs>>, Unset(builder, fs))
CallInc        == \E f \in Fields, p \in {P2} :
                      Chain("Inc", <<f, p>>, Inc(builder, f, p))
CallMul        == \E f \in {F1} : Chain("Mul", <<f, P1>>, Mul(builder, f, P1))
CallPush       == \E f \in {F1} : Chain("Push", <<f, P1>>, Push(builder, f, P1))
CallPull       == \E f \in {F1} : Chain("Pull", <<f, P1>>, Pull(builder, f, P1))
CallAddToSet   == \E f \in {F1} :
                      Chain("AddToSet", <<f, P1>>, AddToSet(builder, f, P1))
CallUpsert     == Chain("Upsert", <<>>, Upsert(builder))
CallMatch      == \E f \in {Eq(F1, P1)} : Chain("Match", <<f>>, Match(builder, f))
CallProject    == \E pr \in ProjectArgs : Chain("Project", <<pr>>, Project(builder, pr))
CallGroup      == \E id \in GroupIDs, acc \in GroupAccs :
                      Chain("Group", <<id, acc>>, Group(builder, id, acc))
CallLookup     == \E f \in {F2} :
                      Chain("Lookup", <<"orders", f, F1, "o">>,
                            Lookup(builder, "orders", f, F1, "o"))
CallUnwind     == \E f \in {F1} : Chain("Unwind", <<f>>, Unwind(builder, f))
CallStage      == \E st \in StageArgs : Chain("Stage", <<st>>, Stage(builder, st))

\* ast, err := b.Build()
BuildWithin(max) ==
    /\ ncalls < max
    /\ built' = <<Build(builder)>>
    /\ ncalls' = ncalls + 1
    /\ last' = [name |-> "Build", args |-> <<>>]
    /\ UNCHANGED <<builder, results, validated, direct, session, made, instance, found, procs>>

CallBuild == session = "chain" /\ BuildWithin(MaxCalls)

\* The calls of the caller that builds a write.
WriteFilter    == \E f \in {Eq(F1, P1), And(<<>>)} :
                      Write("Filter", <<f>>, Filter(builder, f))
WriteDocument  == \E d \in {D1} : Write("Document", <<d>>, Document(builder, d))
WriteDocuments == \E ds \in {<<D2, D1>>, [i \in 1..MaxBatchSize - 1 |-> D1]} :
                      Write("Documents", <<ds>>, Documents(builder, ds))
WriteSet       == \E f \in Fields :
                      Write("Set", <<f, P1>>, Set(builder, f, P1))
WriteBuild     == session = "write" /\ BuildWithin(MaxWriteCalls)

\* The calls of the caller that chains Filter calls: the leaves alternate.
DeepFilter ==
    /\ session = "deep"
    /\ built = <<>>
    /\ \E f \in {IF ncalls % 2 = 0 THEN Eq(F1, P1) ELSE Gt(F2, P2)} :
          ChainWithin(MaxDeepCalls - 1, "Filter", <<f>>, Filter(builder, f))
DeepBuild == session = "deep" /\ built = <<>> /\ BuildWithin(MaxDeepCalls)

\* b.Filter(f) in a goroutine, statement by statement.  The checks: b.err and
\* b.ast.FilterClause == nil.
GoFilterCheck ==
    /\ session = "race"
    /\ \E g \in DOMAIN procs :
          /\ procs[g].pc = "start"
          /\ procs' = [procs EXCEPT
                ![g].pc = IF builder.err # NilErr THEN "done"
                          ELSE IF builder.ast.FilterClause = NilFilterItem THEN "then"
                          ELSE "else",
                ![g].branch = IF builder.err # NilErr THEN "return"
                              ELSE IF builder.ast.FilterClause = NilFilterItem THEN "then"
                              ELSE "else"]
          /\ last' = [name |-> "go Filter", args |-> <<g>>]
    /\ UNCHANGED <<builder, built, results, validated, direct, ncalls, session, made,
                   instance, found>>

\* The else branch reads b.ast.FilterClause for the group it is about to make.
GoFilterLoad ==
    /\ session = "race"
    /\ \E g \in DOMAIN procs :
          /\ procs[g].pc = "else"
          /\ procs' = [procs EXCEPT ![g].pc = "loaded",
                                    ![g].seen = builder.ast.FilterClause]
          /\ last' = [name |-> "go Filter", args |-> <<g>>]
    /\ UNCHANGED <<builder, built, results, validated, direct, ncalls, session, made,
                   instance, found>>

\* The assignment to b.ast.FilterClause: of f in the then branch, of the group
\* of the filter it loaded and f in the else branch.
GoFilterStore ==
    /\ session = "race"
    /\ \E g \in DOMAIN procs :
          /\ procs[g].pc \in {"then", "loaded"}
          /\ builder' = [builder EXCEPT !.ast.FilterClause =
                Filter([builder EXCEPT !.ast.FilterClause = procs[g].seen],
                       procs[g].arg).ast.FilterClause]
          /\ procs' = [procs EXCEPT ![g].pc = "done"]
          /\ last' = [name |-> "go Filter", args |-> <<g>>]
    /\ UNCHANGED <<built, results, validated, direct, ncalls, session, made,
                   instance, found>>

\* A goroutine calls renderer.Render(ast): its parameter list is nil and it
\* has no output map yet.
GoRenderBegin ==
    /\ session = "renders"
    /\ \E g \in DOMAIN procs, renderer \in Renderers :
          /\ procs[g].pc = "start"
          /\ procs' = [procs EXCEPT ![g].pc = "running", ![g].renderer = renderer]
          /\ last' = [name |-> "go Render", args |-> <<g, renderer>>]
    /\ UNCHANGED <<builder, built, results, validated, direct, ncalls, session, made,
                   instance, found>>

\* b.Render(renderer); the runtime picks the orders of the map ranges.
CallRender ==
    /\ session = "chain"
    /\ ncalls < MaxCalls
    /\ Len(results) < MaxRenders
    /\ \E renderer \in Renderers, ord \in Orders :
          /\ results' = Append(results,
                RenderCall(renderer, builder.ast, Render(builder, renderer, ord)))
          /\ last' = [name |-> "Render", args |-> <<renderer>>]
    /\ ncalls' = ncalls + 1
    /\ UNCHANGED <<builder, built, validated, direct, session, made, instance, found, procs>>

\* renderer.Render(ast) on the struct literal; a probing literal is rendered
\* once.  Among goroutines it is the return of the Render one of them began.
DirectRender ==
    /\ session \in {"literal", "probe", "renders"}
    /\ Len(results) < (IF session = "literal" THEN MaxRenders
                       ELSE IF session = "probe" THEN 1 ELSE Len(procs))
    /\ \E renderer \in Renderers, ord \in Orders, g \in DOMAIN procs \cup {0} :
          /\ IF session = "renders"
             THEN g # 0 /\ procs[g].pc = "running" /\ procs[g].renderer = renderer
             ELSE g = 0
          /\ results' = Append(results,
                RenderCall(renderer, direct[1],
                           RendererRender(renderer, direct[1], ord)))
          /\ procs' = IF g = 0 THEN procs
                      ELSE [procs EXCEPT ![g] =
                              [pc |-> "done", renderer |-> renderer,
                               params |-> (IF results'[Len(results')].res = NilPtr THEN <<>>
                                           ELSE results'[Len(results')].res[1].RequiredParams),
                               query |-> results'[Len(results')].query,
                               out |-> Len(results')]]
          /\ last' = [name |-> "Render", args |-> <<renderer>>]
    /\ UNCHANGED <<builder, built, validated, direct, ncalls, session, made, instance, found>>

\* ast.Validate() on the struct literal.
DirectValidate ==
    /\ session \in {"literal", "probe"}
    /\ validated = <<>>
    /\ validated' = <<Validate(direct[1])>>
    /\ last' = [name |-> "Validate", args |-> <<>>]
    /\ UNCHANGED <<builder, built, results, direct, ncalls, session, made, instance, found, procs>>

\* d.TryP(name)
CallTryP ==
    /\ session = "param"
    /\ made = <<>> /\ found = <<>>
    /\ \E name \in Names :
          /\ made' = <<[name |-> name, param |-> TryP(name).param,
                         err |-> TryP(name).err, panic |-> FALSE]>>
          /\ last' = [name |-> "TryP", args |-> <<name>>]
    /\ UNCHANGED <<builder, built, results, validated, direct, ncalls, session, instance, found, procs>>

\* d.P(name), which panics with TryP's error.
CallP ==
    /\ session = "param"
    /\ made = <<>> /\ found = <<>>
    /\ \E name \in Names :
          /\ made' = <<[name |-> name, param |-> P(name).param,
                         err |-> P(name).err, panic |-> P(name).panic]>>
          /\ last' = [name |-> "P", args |-> <<name>>]
    /\ UNCHANGED <<builder, built, results, validated, direct, ncalls, session, instance, found, procs>>

\* d.TryC(name)
CallTryC ==
    /\ session = "param"
    /\ made = <<>> /\ found = <<>>
    /\ \E name \in Names :
          /\ found' = <<[coll |-> <<>>, name |-> name,
                          value |-> TryC(instance, name).value,
                          err |-> TryC(instance, name).err]>>
          /\ last' = [name |-> "TryC", args |-> <<name>>]
    /\ UNCHANGED <<builder, built, results, validated, direct, ncalls, session, made,
                   instance, procs>>

\* d.TryF(collectionName, fieldPath)
CallTryF ==
    /\ session = "param"
    /\ made = <<>> /\ found = <<>>
    /\ \E coll \in CollectionArgs, path \in Names :
          /\ found' = <<[coll |-> coll, name |-> path,
                          value |-> TryF(instance, coll, path).value,
                          err |-> TryF(instance, coll, path).err]>>
          /\ last' = [name |-> "TryF", args |-> <<coll, path>>]
    /\ UNCHANGED <<builder, built, results, validated, direct, ncalls, session, made,
                   instance, procs>>

Next ==
    \/ CallFilter \/ CallWhere \/ CallSelect \/ CallExclude
    \/ CallSort \/ CallSortAsc \/ CallSortDesc
    \/ CallSkip \/ CallSkipParam \/ CallLimit \/ CallLimitParam
    \/ CallDocument \/ CallDocuments
    \/ CallSet \/ CallUnset \/ CallInc \/ CallMul \/ CallPush \/ CallPull
    \/ CallAddToSet \/ CallUpsert
    \/ CallMatch \/ CallProject \/ CallGroup \/ CallLookup \/ CallUnwind \/ CallStage
    \/ CallBuild \/ CallRender
    \/ WriteFilter \/ WriteDocument \/ WriteDocuments \/ WriteSet \/ WriteBuild
    \/ DirectValidate \/ DirectRender
    \/ CallTryP \/ CallP \/ CallTryC \/ CallTryF
    \/ DeepFilter \/ DeepBuild
    \/ GoFilterCheck \/ GoFilterLoad \/ GoFilterStore
    \/ GoRenderBegin

Spec == Init /\ [][Next]_vars

-----------------------------------------------------------------------------
(* Claims about the Builder *)

Chainable ==
    {"Filter", "Where", "Select", "Exclude", "Sort", "SortAsc", "SortDesc",
     "Skip", "SkipParam", "Limit", "LimitParam", "Document", "Documents",
     "Set", "Unset", "Inc", "Mul", "Push", "Pull", "AddToSet", "Upsert",
     "Match", "Project", "Group", "Lookup", "Unwind", "Stage"}

\* C1: once the builder holds a construction error, every later chained call
\* leaves the AST and the error as they are, and every later Build returns
\* that error and no AST, whatever Validate would say of the AST.
C1_StickyFirstError ==
    [][builder.err # NilErr =>
          /\ builder' = builder
          /\ last'.name = "Build" =>
                built' = <<[ast |-> NilPtr, err |-> builder.err]>>]_vars

\* A guard failed on an Insert with no document, which Validate rejects as
\* well; Build has returned the guard's error.
C1_Witness ==
    /\ builder.ast.Operation = OpInsert
    /\ builder.err = "Sort() can only be used with read operations"
    /\ Validate(builder.ast) = "INSERT requires exactly one document"
    /\ last.name = "Build"
    /\ built = <<[ast |-> NilPtr, err |-> builder.err]>>

\* C2: with no error and no filter yet, Filter(a) makes FilterClause a itself;
\* a following Filter(b) makes it the AND group of exactly <<a, b>>.  Nothing
\* else of the builder changes.
C2_FilterComposes ==
    [][(last'.name \in {"Filter", "Where"} /\ builder.err = NilErr) =>
          LET old == builder.ast.FilterClause
              new == builder'.ast.FilterClause
              f   == last'.args[1]
          IN  /\ old = NilFilterItem => new = f
              /\ old \in FilterArgs =>
                    /\ new.kind = "FilterGroup"
                    /\ new.Logic = LogicAND
                    /\ Len(new.Conditions) = 2
                    /\ new.Conditions[1] = old
                    /\ new.Conditions[2] = f
              /\ builder' = [builder EXCEPT !.ast.FilterClause = new]]_vars

\* Filter(Eq(name, v1)) then Filter(Gt(age, v2)) on a fresh builder.
C2_Witness ==
    /\ ncalls = 2
    /\ last = [name |-> "Filter", args |-> <<Gt(F2, P2)>>]
    /\ builder.ast.FilterClause = And(<<Eq(F1, P1), Gt(F2, P2)>>)

\* The update operator a method adds.
OperatorOf(name) ==
    CASE name = "Set" -> UpdateSet
      [] name = "Unset" -> UpdateUnset
      [] name = "Inc" -> UpdateInc
      [] name = "Mul" -> UpdateMul
      [] name = "Push" -> UpdatePush
      [] name = "Pull" -> UpdatePull
      [] name = "AddToSet" -> UpdateAddToSet

\* The field-to-param entries a call passes for its operator.
EntriesOf(call) ==
    IF call.name = "Unset"
    THEN [f \in {call.args[1][i] : i \in DOMAIN call.args[1]} |-> Param("")]
    ELSE call.args[1] :> call.args[2]

\* The operators of a list of UpdateOperations, in order.
OperatorsIn(ops) == [i \in DOMAIN ops |-> ops[i].Operator]

\* C3: UpdateOps never holds two operations of one operator; a call of an
\* update method keeps the operations in the order of their operators' first
\* use, adds an operation only for an operator not used before, and makes the
\* operation of its operator map the fields passed to the params passed while
\* every other entry stays.
C3_MergeByOperator ==
    [][(last'.name \in {"Set", "Unset", "Inc", "Mul", "Push", "Pull", "AddToSet"}
           /\ builder.err = NilErr /\ isUpdateOperation(builder)) =>
          LET old == builder.ast.UpdateOps
              new == builder'.ast.UpdateOps
              op  == OperatorOf(last'.name)
              ent == EntriesOf(last')
              had == \E i \in DOMAIN old : old[i].Operator = op
          IN  /\ \A i, j \in DOMAIN new : new[i].Operator = new[j].Operator => i = j
              /\ OperatorsIn(new) =
                    IF had \/ DOMAIN ent = {} THEN OperatorsIn(old)
                    ELSE Append(OperatorsIn(old), op)
              /\ \A i \in DOMAIN new :
                    IF new[i].Operator # op THEN new[i] = old[i]
                    ELSE /\ DOMAIN new[i].Fields =
                               DOMAIN ent \cup (IF had THEN DOMAIN old[i].Fields ELSE {})
                         /\ \A f \in DOMAIN new[i].Fields :
                               new[i].Fields[f] =
                                  IF f \in DOMAIN ent THEN ent[f] ELSE old[i].Fields[f]]_vars

\* Set(name, v1) then Set(age, v2): one $set operation with two entries.
C3_Witness ==
    /\ ncalls = 2
    /\ last = [name |-> "Set", args |-> <<F2, P2>>]
    /\ builder.ast.UpdateOps = <<UpdateOperation(UpdateSet, (F1 :> P1) @@ (F2 :> P2))>>

\* The calls that do not fit an operation.
Incompatible(name, op) ==
    \/ /\ name \in {"Set", "Unset", "Inc", "Mul", "Push", "Pull", "AddToSet", "Upsert"}
       /\ op \notin {OpUpdate, OpUpdateMany}
    \/ /\ name \in {"Select", "Exclude", "Sort", "SortAsc", "SortDesc", "Skip",
                    "SkipParam", "Limit", "LimitParam"}
       /\ op \in {OpInsert, OpInsertMany, OpUpdate, OpUpdateMany, OpDelete, OpDeleteMany}
    \/ /\ name \in {"Match", "Project", "Group", "Lookup", "Unwind", "Stage"}
       /\ op # OpAggregate
    \/ name = "Document" /\ op \notin {OpInsert, OpInsertMany}
    \/ name = "Documents" /\ op # OpInsertMany

\* C4: a call that does not fit the builder's operation leaves the builder with
\* an error, the error stays, and Build of a builder with an error fails.
C4_MismatchFailsBuild ==
    [][/\ Incompatible(last'.name, builder.ast.Operation) => builder'.err # NilErr
       /\ builder.err # NilErr => builder'.err # NilErr
       /\ (last'.name = "Build" /\ builder.err # NilErr) =>
             (built'[1].err # NilErr /\ built'[1].ast = NilPtr)]_vars

\* Find(users).Set(..).Build(): the AST itself is valid, Build fails.
C4_Witness ==
    /\ builder.ast.Operation = OpFind
    /\ Validate(builder.ast) = NilErr
    /\ builder.err = "Set() can only be used with UPDATE operations"
    /\ last.name = "Build"
    /\ built = <<[ast |-> NilPtr, err |-> builder.err]>>


\* The ASTs the safety rule is about.
NeedsFilter(ast) ==
    \/ ast.Operation = OpDeleteMany
    \/ ast.Operation = OpUpdateMany /\ Len(ast.UpdateOps) >= 1

\* The error of the safety rule.
SafetyError(ast) ==
    IF ast.Operation = OpDeleteMany
    THEN "DELETE_MANY requires a filter for safety"
    ELSE "UPDATE_MANY requires a filter for safety"

\* C5: the builder's FilterClause is nil exactly as long as no Filter or Where
\* was called; Build of a DeleteMany, or of an UpdateMany with an update
\* operation, on a builder without error fails with the safety error when the
\* FilterClause is nil and succeeds when it is not; Validate of a struct
\* literal of these operations decides the same way.
C5_ManyRequiresFilter ==
    [][/\ (last'.name \in Chainable \ {"Filter", "Where"}) =>
             builder'.ast.FilterClause = builder.ast.FilterClause
       /\ (last'.name \in {"Filter", "Where"} /\ builder.err = NilErr) =>
             builder'.ast.FilterClause # NilFilterItem
       /\ (last'.name = "Build" /\ builder.err = NilErr /\ NeedsFilter(builder.ast)) =>
             built'[1] =
                IF builder.ast.FilterClause = NilFilterItem
                THEN [ast |-> NilPtr, err |-> SafetyError(builder.ast)]
                ELSE [ast |-> Ptr(astAddr), err |-> NilErr]
       /\ (last'.name = "Validate" /\ NeedsFilter(direct[1])
              /\ direct[1].Target.Name # "") =>
             validated'[1] =
                IF direct[1].FilterClause = NilFilterItem
                THEN SafetyError(direct[1])
                ELSE NilErr]_vars

\* UpdateMany(users).Set(..).Filter(..).Build() has succeeded.
C5_Witness ==
    /\ builder.ast.Operation = OpUpdateMany
    /\ Len(builder.ast.UpdateOps) = 1
    /\ builder.ast.FilterClause = Eq(F1, P1)
    /\ last.name = "Build"
    /\ built = <<[ast |-> Ptr(astAddr), err |-> NilErr]>>

\* The static limit of an AST, 0 if it has none.
StaticLimit(ast) ==
    IF ast.Limit # NilPtr /\ ast.Limit[1].Static # NilPtr
    THEN ast.Limit[1].Static[1]
    ELSE 0

\* C6: on a Find or FindOne builder without error, Limit(n) with n > MaxLimit
\* records an error and leaves the AST, so Build fails; Limit(n) with
\* n <= MaxLimit records none and Build right after it succeeds.  Validate of
\* a Find or FindOne literal with a static limit succeeds iff the limit is at
\* most MaxLimit.
C6_LimitBoundary ==
    [][/\ (last'.name = "Limit" /\ builder.err = NilErr
              /\ builder.ast.Operation \in {OpFind, OpFindOne}) =>
             IF last'.args[1] > MaxLimit
             THEN /\ builder'.err = "limit exceeds maximum: 10001 > 10000"
                  /\ builder'.ast = builder.ast
             ELSE /\ builder'.err = NilErr
                  /\ StaticLimit(builder'.ast) = last'.args[1]
       /\ (last'.name = "Build" /\ last.name = "Limit"
              /\ builder.ast.Operation \in {OpFind, OpFindOne}) =>
             IF last.args[1] > MaxLimit
             THEN built'[1].ast = NilPtr /\ built'[1].err # NilErr
             ELSE builder.err = NilErr =>
                     built'[1] = [ast |-> Ptr(astAddr), err |-> NilErr]
       /\ (last'.name = "Validate" /\ direct[1].Operation \in {OpFind, OpFindOne}
              /\ direct[1].Target.Name # "" /\ StaticLimit(direct[1]) > 0) =>
             (validated'[1] = NilErr <=> StaticLimit(direct[1]) <= MaxLimit)]_vars

\* Find(users).Limit(MaxLimit).Build() has succeeded.
C6_Witness ==
    /\ builder.ast.Operation = OpFind
    /\ StaticLimit(builder.ast) = MaxLimit
    /\ ncalls = 2
    /\ last.name = "Build"
    /\ built = <<[ast |-> Ptr(astAddr), err |-> NilErr]>>

\* C7: Document adds one document and Documents adds its arguments to the
\* builder's documents, no other call changes them; Build on a builder without
\* error succeeds for an Insert iff it holds exactly one document and for an
\* InsertMany iff it holds at least one and at most MaxBatchSize.
C7_DocumentCount ==
    [][/\ (last'.name \in Chainable) =>
             Len(builder'.ast.Documents) =
                Len(builder.ast.Documents) +
                   (IF builder.err # NilErr THEN 0
                    ELSE IF last'.name = "Document"
                            /\ builder.ast.Operation \in {OpInsert, OpInsertMany}
                    THEN 1
                    ELSE IF last'.name = "Documents"
                            /\ builder.ast.Operation = OpInsertMany
                    THEN Len(last'.args[1])
                    ELSE 0)
       /\ (last'.name = "Build" /\ builder.err = NilErr
              /\ builder.ast.Operation = OpInsert) =>
             (built'[1].err = NilErr <=> Len(builder.ast.Documents) = 1)
       /\ (last'.name = "Build" /\ builder.err = NilErr
              /\ builder.ast.Operation = OpInsertMany) =>
             (built'[1].err = NilErr <=>
                 (1 <= Len(builder.ast.Documents)
                     /\ Len(builder.ast.Documents) <= MaxBatchSize))]_vars

\* InsertMany(users).Documents(1001 documents).Build() has failed.
C7_Witness ==
    /\ builder.ast.Operation = OpInsertMany
    /\ builder.err = NilErr
    /\ Len(builder.ast.Documents) = MaxBatchSize + 1
    /\ last.name = "Build"
    /\ built = <<[ast |-> NilPtr, err |-> "batch size exceeds maximum: 1001 > 1000"]>>

\* What a *DocumentAST points to.
Deref(p) == IF p = Ptr(astAddr) THEN builder.ast ELSE direct[1]

\* C8: once Build has succeeded, no chained call changes the AST it returned,
\* and that AST satisfies Validate after the call.
C8_BuiltASTImmutable ==
    [][(built # <<>> /\ built[1].err = NilErr /\ last'.name \in Chainable) =>
          /\ Deref(built[1].ast)' = Deref(built[1].ast)
          /\ Validate(Deref(built[1].ast))' = NilErr]_vars


-----------------------------------------------------------------------------
(* Claims about rendering *)

\* C9: two Render calls of one renderer on the same AST return the same JSON,
\* the same RequiredParams and the same error.
C9_RenderDeterministic ==
    \A i, j \in DOMAIN results :
       (results[i].renderer = results[j].renderer /\ results[i].ast = results[j].ast) =>
          (results[i].res = results[j].res /\ results[i].err = results[j].err)

\* The Param names of the Conditions of a filter, left to right.
RECURSIVE ConditionParams(_)
ConditionParams(f) ==
    CASE f.kind = "FilterCondition" -> <<f.Value.Name>>
      [] f.kind \in {"FilterGroup", "ElemMatchFilter"} ->
           Flatten([i \in DOMAIN f.Conditions |-> ConditionParams(f.Conditions[i])],
                   1, Len(f.Conditions))
      [] OTHER -> <<>>

\* s[i..] can be read off t[j..] in order.
RECURSIVE IsSubseqFrom(_, _, _, _)
IsSubseqFrom(s, i, t, j) ==
    IF i > Len(s) THEN TRUE
    ELSE IF j > Len(t) THEN FALSE
    ELSE IF s[i] = t[j] THEN IsSubseqFrom(s, i + 1, t, j + 1)
    ELSE IsSubseqFrom(s, i, t, j + 1)

\* The strings of a rendered document.
RECURSIVE StringLeaves(_)
StringLeaves(v) ==
    CASE v.j = "string" -> {v.s}
      [] v.j = "array"  -> UNION {StringLeaves(v.a[i]) : i \in DOMAIN v.a}
      [] v.j = "object" -> UNION {StringLeaves(v.m[k]) : k \in DOMAIN v.m}
      [] OTHER -> {}

\* C10: every successful Render of an AST with a FilterClause lists the Param
\* names of the filter's Conditions in RequiredParams, in their order and with
\* their repetitions, and the document holds the placeholder of each.
C10_FilterParamsListed ==
    \A i \in DOMAIN results :
       (results[i].err = NilErr /\ results[i].ast.FilterClause # NilFilterItem) =>
          LET names == ConditionParams(results[i].ast.FilterClause)
          IN  /\ IsSubseqFrom(names, 1, results[i].res[1].RequiredParams, 1)
              /\ \A n \in DOMAIN names :
                    Str(":" \o names[n]) \in StringLeaves(results[i].query)

\* The sum of a sequence of numbers.
RECURSIVE SumSeq(_)
SumSeq(ns) == IF ns = <<>> THEN 0 ELSE ns[1] + SumSeq(Tail(ns))

\* How many string leaves of a rendered document equal leaf.
RECURSIVE Occurrences(_, _)
Occurrences(v, leaf) ==
    CASE v.j = "string" -> IF v = leaf THEN 1 ELSE 0
      [] v.j = "array"  -> SumSeq([i \in DOMAIN v.a |-> Occurrences(v.a[i], leaf)])
      [] v.j = "object" ->
           LET ks == SortedKeys(v.m)
           IN  SumSeq([i \in DOMAIN ks |-> Occurrences(v.m[ks[i]], leaf)])
      [] OTHER -> 0

\* How many entries of the list params equal name.
Listed(params, name) == Cardinality({i \in DOMAIN params : params[i] = name})

\* The names of the Params the callers of this model bind.
ParamNames == {p.Name : p \in Params}

\* C11: in every successful render, each parameter name is listed in
\* RequiredParams exactly as many times as its placeholder ":name" occurs as a
\* leaf of the rendered document: none is listed without occurring and none
\* occurs without being listed.
C11_PlaceholdersMatchParams ==
    \A i \in DOMAIN results :
       results[i].err = NilErr =>
          \A name \in ParamNames :
             Occurrences(results[i].query, Placeholder(name))
                = Listed(results[i].res[1].RequiredParams, name)

-----------------------------------------------------------------------------
(* Claims about the capabilities of the dialects *)

\* renderer.SupportsOperation(op)
SupportsOperation(renderer, op) ==
    CASE renderer = "mongodb"   -> mongodb_SupportsOperation(op)
      [] renderer = "dynamodb"  -> dynamodb_SupportsOperation(op)
      [] renderer = "firestore" -> firestore_SupportsOperation(op)
      [] renderer = "couchdb"   -> couchdb_SupportsOperation(op)

\* The operations every dialect renders.
SingleOperations == {OpFind, OpFindOne, OpInsert, OpUpdate, OpDelete}

\* An AST that uses nothing beyond what every dialect has: no filter or one
\* equality, Set updates, no projection, sort or paging, Match and Count stages.
Plain(ast) ==
    /\ ast.FilterClause \in {NilFilterItem, Eq(F1, P1)}
    /\ ast.Projection = NilPtr /\ ast.SortClauses = <<>>
    /\ ast.Skip = NilPtr /\ ast.Limit = NilPtr
    /\ \A i \in DOMAIN ast.UpdateOps : ast.UpdateOps[i].Operator = UpdateSet
    /\ \A i \in DOMAIN ast.Pipeline : ast.Pipeline[i].kind \in {"MatchStage", "CountStage"}

\* C12: mongodb supports all 11 operations and the other three dialects only
\* Find, FindOne, Insert, Update and Delete; a Render of a valid AST succeeds
\* only if the dialect supports its operation, otherwise it returns an error
\* and a nil result; and a valid plain AST of a supported operation renders.
C12_OperationMatrix ==
    /\ \A op \in Operations : SupportsOperation("mongodb", op)
    /\ \A r \in Renderers \ {"mongodb"}, op \in Operations :
          SupportsOperation(r, op) <=> op \in SingleOperations
    /\ \A i \in DOMAIN results :
          Validate(results[i].ast) = NilErr =>
             /\ ~SupportsOperation(results[i].renderer, results[i].ast.Operation) =>
                   (results[i].err # NilErr /\ results[i].res = NilPtr)
             /\ (/\ SupportsOperation(results[i].renderer, results[i].ast.Operation)
                 /\ Plain(results[i].ast)
                 /\ builder.err = NilErr) =>
                   (results[i].err = NilErr /\ results[i].res # NilPtr)

\* A valid Aggregate of one Match stage was rendered through dynamodb, which
\* returned its unsupported-operation error and a nil result.
C12_Witness ==
    \E i \in DOMAIN results :
       /\ results[i].ast.Operation = OpAggregate
       /\ results[i].ast.Pipeline = <<MatchStage(Eq(F1, P1))>>
       /\ Validate(results[i].ast) = NilErr
       /\ results[i].renderer = "dynamodb"
       /\ results[i].err = "DynamoDB does not support operation: AGGREGATE"
       /\ results[i].res = NilPtr

\* renderer.SupportsFilter(op)
SupportsFilter(renderer, op) ==
    CASE renderer = "mongodb"   -> mongodb_SupportsFilter(op)
      [] renderer = "dynamodb"  -> dynamodb_SupportsFilter(op)
      [] renderer = "firestore" -> firestore_SupportsFilter(op)
      [] renderer = "couchdb"   -> couchdb_SupportsFilter(op)

\* The filter variants that carry filter operators, and the operators a
\* filter of such a variant carries.
OperatorVariants ==
    {"FilterCondition", "ExistsFilter", "RegexFilter", "ArrayFilter", "RangeFilter"}

OperatorsCarried(f) ==
    CASE f.kind \in {"FilterCondition", "ArrayFilter"} -> {f.Operator}
      [] f.kind = "ExistsFilter" -> {OpExists}
      [] f.kind = "RegexFilter" -> {OpRegex}
      [] f.kind = "RangeFilter" ->
           (IF f.Min = NilPtr THEN {} ELSE {IF f.MinExclusive THEN OpGT ELSE OpGTE})
           \cup (IF f.Max = NilPtr THEN {} ELSE {IF f.MaxExclusive THEN OpLT ELSE OpLTE})

\* C13: the dialects support the filter operators the table lists, and a
\* valid Find whose filter is a FilterCondition, ExistsFilter, RegexFilter,
\* ArrayFilter or RangeFilter renders without error exactly when the dialect's
\* SupportsFilter is true of the operators the filter carries.
C13_FilterProbeAgrees ==
    /\ \A op \in FilterOperators :
          /\ SupportsFilter("mongodb", op)
          /\ SupportsFilter("dynamodb", op)
                <=> op \in {OpEQ, OpNE, OpGT, OpGTE, OpLT, OpLTE, OpExists}
          /\ SupportsFilter("firestore", op)
                <=> op \in {OpEQ, OpNE, OpGT, OpGTE, OpLT, OpLTE, OpIN, OpNotIn, OpAll}
          /\ SupportsFilter("couchdb", op)
                <=> op \in {OpEQ, OpNE, OpGT, OpGTE, OpLT, OpLTE, OpIN, OpNotIn,
                            OpRegex, OpExists}
    /\ \A i \in DOMAIN results :
          (/\ results[i].ast.Operation = OpFind
           /\ results[i].ast.FilterClause.kind \in OperatorVariants
           /\ Validate(results[i].ast) = NilErr
           /\ builder.err = NilErr) =>
             (results[i].err = NilErr
                <=> \A op \in OperatorsCarried(results[i].ast.FilterClause) :
                       SupportsFilter(results[i].renderer, op))

\* renderer.SupportsUpdate(op)
SupportsUpdate(renderer, op) ==
    CASE renderer = "mongodb"   -> mongodb_SupportsUpdate(op)
      [] renderer = "dynamodb"  -> dynamodb_SupportsUpdate(op)
      [] renderer = "firestore" -> firestore_SupportsUpdate(op)
      [] renderer = "couchdb"   -> couchdb_SupportsUpdate(op)

\* C14: the dialects support the update operators the table lists, and a
\* Render of a valid Update succeeds only if SupportsUpdate is true of the
\* operator of every UpdateOperation; an Update with any other operator
\* returns an error and a nil result.
C14_UpdateCapability ==
    /\ \A op \in UpdateOperators :
          /\ SupportsUpdate("mongodb", op)
          /\ SupportsUpdate("dynamodb", op) <=> op \in {UpdateSet, UpdateUnset, UpdateInc}
          /\ SupportsUpdate("firestore", op) <=> op \in {UpdateSet, UpdateUnset}
          /\ SupportsUpdate("couchdb", op) <=> op = UpdateSet
    /\ \A i \in DOMAIN results :
          (/\ results[i].ast.Operation \in {OpUpdate, OpUpdateMany}
           /\ Validate(results[i].ast) = NilErr) =>
             LET ops == results[i].ast.UpdateOps
                 supported == \A k \in DOMAIN ops :
                                 SupportsUpdate(results[i].renderer, ops[k].Operator)
             IN  /\ results[i].err = NilErr => supported
                 /\ ~supported => (results[i].err # NilErr /\ results[i].res = NilPtr)

\* A valid Update of a Set and an Inc was rendered through couchdb, which
\* returned its Set-only error and a nil result.
C14_Witness ==
    \E i \in DOMAIN results :
       /\ results[i].ast.Operation = OpUpdate
       /\ Len(results[i].ast.UpdateOps) = 2
       /\ results[i].ast.UpdateOps[1].Operator = UpdateSet
       /\ results[i].ast.UpdateOps[2].Operator = UpdateInc
       /\ Validate(results[i].ast) = NilErr
       /\ results[i].renderer = "couchdb"
       /\ results[i].err = "CouchDB only supports $set updates"
       /\ results[i].res = NilPtr

\* The logic kinds each dialect's documentation gives it.
SupportedLogic(renderer) ==
    CASE renderer = "mongodb"   -> {LogicAND, LogicOR, LogicNOR}
      [] renderer = "dynamodb"  -> {LogicAND, LogicOR}
      [] renderer = "firestore" -> {LogicAND}
      [] renderer = "couchdb"   -> {LogicAND, LogicOR, LogicNOR}

\* The logic kinds of the FilterGroups of a filter, at any nesting level.
RECURSIVE LogicKinds(_)
LogicKinds(f) ==
    CASE f.kind = "FilterGroup" ->
           {f.Logic} \cup UNION {LogicKinds(f.Conditions[i]) : i \in DOMAIN f.Conditions}
      [] f.kind = "ElemMatchFilter" ->
           UNION {LogicKinds(f.Conditions[i]) : i \in DOMAIN f.Conditions}
      [] OTHER -> {}

\* C15: a Render of a Find whose filter holds, at any nesting level, a
\* FilterGroup of a logic kind the dialect does not support (one of AND, OR,
\* NOR, NOT) fails: it never succeeds by rendering another logic.
C15_UnsupportedLogicFails ==
    \A i \in DOMAIN results :
       (/\ results[i].ast.Operation \in {OpFind, OpFindOne}
        /\ \E l \in LogicKinds(results[i].ast.FilterClause) :
              l \in {LogicAND, LogicOR, LogicNOR, LogicNOT}
                 \ SupportedLogic(results[i].renderer)) =>
          (results[i].err # NilErr /\ results[i].res = NilPtr)

\* Every child is a FilterCondition of an operator firestore maps.
FirestoreConditions(cs) ==
    \A k \in DOMAIN cs :
       cs[k].kind = "FilterCondition" /\ firestore_SupportsFilter(cs[k].Operator)

StageName(s) ==
    CASE s.kind = "MatchStage"       -> "$match"
      [] s.kind = "ProjectStage"     -> "$project"
      [] s.kind = "GroupStage"       -> "$group"
      [] s.kind = "SortStage"        -> "$sort"
      [] s.kind = "LimitStage"       -> "$limit"
      [] s.kind = "SkipStage"        -> "$skip"
      [] s.kind = "UnwindStage"      -> "$unwind"
      [] s.kind = "LookupStage"      -> "$lookup"
      [] s.kind = "AddFieldsStage"   -> "$addFields"
      [] s.kind = "ReplaceRootStage" -> "$replaceRoot"
      [] s.kind = "CountStage"       -> "$count"
      [] s.kind = "FacetStage"       -> "$facet"
      [] s.kind = "BucketStage"      -> "$bucket"

\* C17: a mongodb Render of a valid Aggregate, whatever PipelineStage variants
\* its pipeline holds, succeeds with a pipeline array of one entry per stage,
\* and SupportsPipelineStage is true of the name of every stage.
C17_MongoRendersEveryStage ==
    \A i \in DOMAIN results :
       (/\ results[i].renderer = "mongodb"
        /\ results[i].ast.Operation = OpAggregate
        /\ Validate(results[i].ast) = NilErr
        /\ builder.err = NilErr) =>
          /\ \A k \in DOMAIN results[i].ast.Pipeline :
                mongodb_SupportsPipelineStage(StageName(results[i].ast.Pipeline[k]))
          /\ results[i].err = NilErr
          /\ Len(results[i].query.m["pipeline"].a) = Len(results[i].ast.Pipeline)

\* C18: a Render, through any of the four dialects, of an AST that Validate
\* rejects returns a nil result and the validation error wrapped as
\* "invalid AST: ...", also when the dialect does not support the operation
\* (Builder.Render returns the error of Build before it reaches the renderer).
C18_RevalidatesFirst ==
    \A i \in DOMAIN results :
       Validate(results[i].ast) # NilErr =>
          /\ results[i].res = NilPtr
          /\ results[i].err # NilErr
          /\ session \in {"literal", "probe"} =>
                results[i].err = "invalid AST: " \o Validate(results[i].ast)

\* A DeleteMany without a filter was rendered through firestore, which does
\* not support DeleteMany, and through mongodb; both returned the validation
\* error.
C18_Witness ==
    \E i, j \in DOMAIN results :
       /\ results[i].ast.Operation = OpDeleteMany
       /\ results[i].ast.Target = Users
       /\ results[i].ast.FilterClause = NilFilterItem
       /\ results[j].ast = results[i].ast
       /\ results[i].renderer = "firestore" /\ results[j].renderer = "mongodb"
       /\ results[i].err = "invalid AST: DELETE_MANY requires a filter for safety"
       /\ results[j].err = results[i].err
       /\ results[i].res = NilPtr /\ results[j].res = NilPtr

-----------------------------------------------------------------------------
(* Claims about validation and identifiers *)

\* The largest of a set of numbers, 0 for the empty set.
MaxOf(S) == IF S = {} THEN 0 ELSE CHOOSE n \in S : \A m \in S : m <= n

\* The nesting depth of a filter: every FilterGroup and every ElemMatchFilter
\* is one level, every other FilterItem none.
RECURSIVE FilterDepth(_)
FilterDepth(f) ==
    IF f.kind \in {"FilterGroup", "ElemMatchFilter"}
    THEN 1 + MaxOf({FilterDepth(f.Conditions[i]) : i \in DOMAIN f.Conditions})
    ELSE 0

\* C19: the FilterClause of every AST that passes Validate, or that Build
\* returns without error, is nested no deeper than MaxFilterDepth, whatever
\* the operation.
C19_FilterDepthBounded ==
    /\ (validated = <<NilErr>> /\ direct # <<>>) =>
          FilterDepth(direct[1].FilterClause) <= MaxFilterDepth
    /\ (last.name = "Build" /\ built # <<>> /\ built[1].err = NilErr) =>
          FilterDepth(builder.ast.FilterClause) <= MaxFilterDepth

WhitespaceChars == {" ", "\t", "\n"}
QuoteChars == {"'", "\"", Backtick}

\* The keyword fragments as the claim lists them, and as amended.
ListedFragments ==
    <<<<" ", "o", "r", " ">>, <<" ", "a", "n", "d", " ">>,
      <<"d", "r", "o", "p", " ">>, <<"d", "e", "l", "e", "t", "e", " ">>,
      <<"i", "n", "s", "e", "r", "t", " ">>, <<"u", "p", "d", "a", "t", "e", " ">>,
      <<"s", "e", "l", "e", "c", "t", " ">>, <<"u", "n", "i", "o", "n", " ">>,
      <<"e", "x", "e", "c">>>>

AmendedFragments == [ListedFragments EXCEPT ![9] = <<"e", "x", "e", "c", " ">>]

\* The name holds whitespace, ';', '--', '/*', a quote character or, compared
\* in lower case, one of the fragments.
Denylisted(name, fragments) ==
    \/ \E i \in DOMAIN name : name[i] \in WhitespaceChars \cup QuoteChars
    \/ Contains(name, <<";">>)
    \/ Contains(name, <<"-", "-">>)
    \/ Contains(name, <<"/", "*">>)
    \/ \E k \in DOMAIN fragments : Contains(ToLower(name), fragments[k])

\* The latest P or TryP failed: TryP returned an error, P panicked with it.
ParamFailed ==
    /\ made[1].err # NilErr
    /\ made[1].param = Param("")
    /\ last.name = "P" <=> made[1].panic

\* C20 as stated: TryP and P fail for every name that holds whitespace, ';',
\* '--', '/*', a quote character or, in any case, one of " or ", " and ",
\* "drop ", "delete ", "insert ", "update ", "select ", "union ", "exec".
C20_TryPRejectsListed ==
    (made # <<>> /\ Denylisted(made[1].name, ListedFragments)) => ParamFailed

\* C20, amended: the same with the fragment "exec " (with its trailing
\* space) in place of "exec".
C20_TryPRejectsDenylisted ==
    (made # <<>> /\ Denylisted(made[1].name, AmendedFragments)) => ParamFailed

\* P was called with a name that holds a denylisted keyword in upper case,
\* and panicked.
C20_Witness ==
    /\ made # <<>>
    /\ last.name = "P"
    /\ made[1].name = <<"D", "R", "O", "P", " ", "t">>
    /\ Denylisted(made[1].name, AmendedFragments)
    /\ made[1].panic
    /\ made[1].err = "invalid parameter name: DROP t"

-----------------------------------------------------------------------------
(* Claims about the schema and the form of names *)

AsciiLetters ==
    {LowerLetters[i] : i \in DOMAIN LowerLetters}
    \cup {UpperLetters[i] : i \in DOMAIN UpperLetters}

\* Not empty, an ASCII letter or '_' first, then ASCII letters, digits and '_'.
IdentifierForm(s) ==
    /\ s # <<>>
    /\ s[1] \in AsciiLetters \cup {"_"}
    /\ \A i \in 2..Len(s) : s[i] \in AsciiLetters \cup DigitChars \cup {"_"}

\* The segments between the dots of s, left to right.
Segments(s) ==
    LET dots  == {i \in DOMAIN s : s[i] = "."}
        cuts  == dots \cup {0, Len(s) + 1}
        start == {c \in cuts : c <= Len(s)}
        next(c) == CHOOSE d \in cuts : d > c /\ \A e \in cuts : e > c => d <= e
    IN  {SubSeq(s, c + 1, next(c) - 1) : c \in start}

\* Every segment is not empty and has the form of an identifier, with '$'
\* allowed as its first character too.
FieldPathForm(s) ==
    \A seg \in Segments(s) :
       /\ seg # <<>>
       /\ seg[1] \in AsciiLetters \cup {"_", "$"}
       /\ \A i \in 2..Len(seg) : seg[i] \in AsciiLetters \cup DigitChars \cup {"_"}

\* What a field of the schema holds below it: the fields of an object, the
\* fields of the objects of an array.
ChildrenOf(f) ==
    IF f.Type = TypeObject THEN f.Fields
    ELSE IF f.Type = TypeArray /\ f.ArrayOf # NilPtr /\ f.ArrayOf[1].Type = TypeObject
    THEN f.ArrayOf[1].Fields
    ELSE <<>>

\* The names, outermost first, lead from these fields to a field.
RECURSIVE Reaches(_, _)
Reaches(fields, names) ==
    \E i \in DOMAIN fields :
       /\ fields[i].Name = names[1]
       /\ Len(names) = 1 \/ Reaches(ChildrenOf(fields[i]), Tail(names))

\* The names of a dot-path, outermost first.
RECURSIVE NamesOf(_)
NamesOf(path) ==
    IF \A i \in DOMAIN path : path[i] # "." THEN <<path>>
    ELSE LET d == CHOOSE i \in DOMAIN path :
                     path[i] = "." /\ \A j \in DOMAIN path : path[j] = "." => i <= j
         IN  <<SubSeq(path, 1, d - 1)>> \o NamesOf(SubSeq(path, d + 1, Len(path)))

SchemaCollections == DOMAIN TestSchema.Collections

\* C21: TryC(name) succeeds exactly when name has the form of an identifier
\* and the schema has a collection of that name; TryF(coll, path) succeeds
\* exactly when path has the form of a field path, coll is in the schema and
\* path is the dot-path of a field reached from coll's fields through objects
\* and arrays of objects; TryP(name) succeeds for every name of the form of
\* an identifier.  What succeeds returns the reference asked for.
C21_SchemaExistence ==
    /\ (found # <<>> /\ last.name = "TryC") =>
          /\ found[1].err = NilErr <=>
                (IdentifierForm(found[1].name) /\ found[1].name \in SchemaCollections)
          /\ found[1].err = NilErr =>
                found[1].value = Collection(StringOf(found[1].name))
    /\ (found # <<>> /\ last.name = "TryF") =>
          /\ found[1].err = NilErr <=>
                /\ FieldPathForm(found[1].name)
                /\ found[1].coll \in SchemaCollections
                /\ Reaches(TestSchema.Collections[found[1].coll], NamesOf(found[1].name))
          /\ found[1].err = NilErr =>
                found[1].value = Field(StringOf(found[1].name), StringOf(found[1].coll))
    /\ (made # <<>> /\ last.name = "TryP" /\ IdentifierForm(made[1].name)) =>
          /\ made[1].err = NilErr
          /\ made[1].param = Param(StringOf(made[1].name))

\* TryF found a field of the objects of an array.
C21_Witness ==
    /\ found # <<>> /\ last.name = "TryF"
    /\ found[1].coll = <<"u", "s", "e", "r", "s">>
    /\ found[1].name = <<"t", "a", "g", "s", ".", "l", "a", "b", "e", "l">>
    /\ found[1].err = NilErr
    /\ found[1].value = Field("tags.label", "users")

\* C30: the denylist never decides.  P, TryP and TryC accept the form of a
\* name exactly when it is not empty, starts with an ASCII letter or '_' and
\* goes on with ASCII letters, digits and '_'; TryF accepts the form of a path
\* exactly when every segment between its dots is not empty and of that form,
\* with '$' allowed first.
C30_DenylistNeverDecides ==
    /\ made # <<>> =>
          (made[1].err = NilErr <=> IdentifierForm(made[1].name))
    /\ (found # <<>> /\ last.name = "TryC") =>
          (found[1].err = "invalid collection name: " \o StringOf(found[1].name)
             <=> ~IdentifierForm(found[1].name))
    /\ (found # <<>> /\ last.name = "TryF") =>
          (found[1].err = "invalid field path: " \o StringOf(found[1].name)
             <=> ~FieldPathForm(found[1].name))

\* A name that holds a keyword of the denylist was accepted as a Param.
C30_Witness ==
    /\ made # <<>>
    /\ made[1].name = <<"e", "x", "e", "c", "u", "t", "o", "r">>
    /\ IdentifierForm(made[1].name)
    /\ made[1].err = NilErr
    /\ made[1].param = Param("executor")

-----------------------------------------------------------------------------
(* Claims about what the Builder accepts and the renderers leave out *)

\* f is a chain of k leaf filters: a leaf for k = 1, otherwise an AND group of
\* a chain of k - 1 leaves and one leaf.
RECURSIVE IsLeftChain(_, _)
IsLeftChain(f, k) ==
    IF k = 1 THEN f.kind = "FilterCondition"
    ELSE /\ f.kind = "FilterGroup"
         /\ f.Logic = LogicAND
         /\ Len(f.Conditions) = 2
         /\ f.Conditions[2].kind = "FilterCondition"
         /\ IsLeftChain(f.Conditions[1], k - 1)

\* The filter k groups down along the first conditions.
RECURSIVE FirstAt(_, _)
FirstAt(f, k) == IF k = 0 THEN f ELSE FirstAt(f.Conditions[1], k - 1)

\* The Filter calls made so far by the caller that chains Filter calls.
FilterCalls == IF built = <<>> THEN ncalls ELSE ncalls - 1

\* C24: after k >= 1 Filter calls with leaf filters the FilterClause is a
\* left-nested chain of k - 1 AND groups with the first filter k - 1 levels
\* deep; on a Find or FindOne builder Build succeeds after up to
\* MaxFilterDepth + 1 Filter calls and fails with the filter-depth error after
\* more.
C24_FilterCallsNest ==
    session = "deep" =>
       /\ FilterCalls = 0 => builder.ast.FilterClause = NilFilterItem
       /\ FilterCalls >= 1 =>
             /\ IsLeftChain(builder.ast.FilterClause, FilterCalls)
             /\ FilterDepth(builder.ast.FilterClause) = FilterCalls - 1
             /\ FirstAt(builder.ast.FilterClause, FilterCalls - 1) = Eq(F1, P1)
       /\ built # <<>> =>
             IF FilterCalls <= MaxFilterDepth + 1
             THEN built[1].err = NilErr
             ELSE /\ built[1].ast = NilPtr
                  /\ built[1].err = "filter nesting exceeds maximum depth: "
                        \o ToString(MaxFilterDepth + 1) \o " > " \o ToString(MaxFilterDepth)

\* Build failed after MaxFilterDepth + 2 Filter calls with leaf filters.
C24_Witness ==
    /\ session = "deep"
    /\ built # <<>>
    /\ FilterCalls = MaxFilterDepth + 2
    /\ IsLeftChain(builder.ast.FilterClause, FilterCalls)
    /\ built[1].err = "filter nesting exceeds maximum depth: 11 > 10"

ManyOperations == {OpUpdateMany, OpDeleteMany}

\* The Builder holds one of the ASTs with an empty AND group as its filter.
BuiltEmptyGroup ==
    /\ builder.err = NilErr
    /\ \E a \in EmptyGroupASTs :
          /\ builder.ast.Operation = a.Operation
          /\ builder.ast.FilterClause = a.FilterClause
          /\ DOMAIN builder.ast.UpdateOps = DOMAIN a.UpdateOps
          /\ builder.ast.Documents = <<>>

\* C25: a Group with no conditions meets the filter requirement of UpdateMany
\* and DeleteMany.  Build accepts DeleteMany(c).Filter(And()) and
\* UpdateMany(c).Set(f, p).Filter(And()), Validate accepts their ASTs, and
\* the MongoDB renderer gives them the filter {"$and": []}, which adds no
\* parameter.
C25_EmptyGroupMeetsSafetyRule ==
    /\ (last.name = "Build" /\ built # <<>> /\ BuiltEmptyGroup) =>
          built[1].err = NilErr
    /\ (validated # <<>> /\ direct # <<>> /\ direct[1] \in EmptyGroupASTs) =>
          validated[1] = NilErr
    /\ \A i \in DOMAIN results :
          (results[i].renderer = "mongodb" /\ results[i].ast \in EmptyGroupASTs) =>
             /\ results[i].err = NilErr
             /\ results[i].query.m["filter"] = JObj("$and" :> JArr(<<>>))
             /\ results[i].res[1].RequiredParams =
                   (IF results[i].ast.Operation = OpUpdateMany THEN <<P1.Name>> ELSE <<>>)

\* Build accepted UpdateMany(c).Set(f, p).Filter(And()).
C25_Witness ==
    /\ session = "write"
    /\ last.name = "Build"
    /\ builder.ast.Operation = OpUpdateMany
    /\ builder.ast.FilterClause = And(<<>>)
    /\ Len(builder.ast.UpdateOps) = 1
    /\ built # <<>> /\ built[1].err = NilErr

\* The calls that add a sort clause, a skip or a limit.
ModifierCalls ==
    {"Sort", "SortAsc", "SortDesc", "Skip", "SkipParam", "Limit", "LimitParam"}

UnpagedOperations == {OpAggregate, OpCount, OpDistinct}

\* The AST without its sort clauses, skip and limit.
Unmodified(ast) == [ast EXCEPT !.SortClauses = <<>>, !.Skip = NilPtr, !.Limit = NilPtr]

Modified(ast) == ast # Unmodified(ast)

\* What the latest modifier call was asked to store is in the AST.
ModifierStored ==
    CASE last.name = "Sort" ->
           builder.ast.SortClauses = <<SortClause(last.args[1], last.args[2])>>
      [] last.name = "SortAsc" ->
           builder.ast.SortClauses = <<SortClause(last.args[1], Ascending)>>
      [] last.name = "SortDesc" ->
           builder.ast.SortClauses = <<SortClause(last.args[1], Descending)>>
      [] last.name = "Skip" ->
           builder.ast.Skip = Ptr(PaginationValue(Ptr(last.args[1]), NilPtr))
      [] last.name = "SkipParam" ->
           builder.ast.Skip = Ptr(PaginationValue(NilPtr, Ptr(last.args[1])))
      [] last.name = "Limit" ->
           builder.ast.Limit = Ptr(PaginationValue(Ptr(last.args[1]), NilPtr))
      [] last.name = "LimitParam" ->
           builder.ast.Limit = Ptr(PaginationValue(NilPtr, Ptr(last.args[1])))

\* The stages of a rendered pipeline are named by their only key.
StageKeys(query) ==
    IF "pipeline" \in DOMAIN query.m
    THEN UNION {DOMAIN query.m["pipeline"].a[k].m : k \in DOMAIN query.m["pipeline"].a}
    ELSE {}

-----------------------------------------------------------------------------
(* Claims about the documents of the dialects *)

\* The placeholders getName and getValue hand out.
NamePlaceholders  == {"#n" \o ToString(k) : k \in 0..9}
ValuePlaceholders == {":v" \o ToString(k) : k \in 0..9}

ExpressionKeys == {"FilterExpression", "ProjectionExpression", "UpdateExpression"}

\* The placeholders of one kind that occur in the expressions of a document.
PlaceholdersIn(query, placeholders) ==
    UNION {{query.m[key].s[k] : k \in DOMAIN query.m[key].s} \cap placeholders
              : key \in DOMAIN query.m \cap ExpressionKeys}

\* The keys of a map of the document, none when the document has no such map.
EntriesAt(query, key) ==
    IF key \in DOMAIN query.m THEN DOMAIN query.m[key].m ELSE {}

\* C27: in every document the DynamoDB renderer returns for a Find, FindOne or
\* Update, each #nK that occurs in FilterExpression, ProjectionExpression or
\* UpdateExpression has an entry in ExpressionAttributeNames and each :vK an
\* entry in ExpressionAttributeValues.
C27_PlaceholdersDefined ==
    \A i \in DOMAIN results :
       (results[i].renderer = "dynamodb" /\ results[i].err = NilErr
          /\ results[i].ast.Operation \in {OpFind, OpFindOne, OpUpdate}) =>
          /\ PlaceholdersIn(results[i].query, NamePlaceholders)
                \subseteq EntriesAt(results[i].query, "ExpressionAttributeNames")
          /\ PlaceholdersIn(results[i].query, ValuePlaceholders)
                \subseteq EntriesAt(results[i].query, "ExpressionAttributeValues")

Reverse(s) == [i \in 1..Len(s) |-> s[Len(s) + 1 - i]]

SortPaths(sorts) == {sorts[k].Field.Path : k \in DOMAIN sorts}

\* The order of the last clause on the path.
LastOrder(sorts, path) ==
    sorts[MaxOf({k \in DOMAIN sorts : sorts[k].Field.Path = path})].Order

Direction(order) == IF order = Descending THEN "desc" ELSE "asc"

\* C28: the MongoDB renderer keys the sort of a Find by field path: it holds
\* one entry for each path, with the order of the last clause on that path,
\* and when the paths differ the document is the one the renderer returns for
\* the clauses in reverse order.  The CouchDB and Firestore renderers give an
\* array with one entry for each clause, in the order of the AST.
C28_SortOrderLostByMongo ==
    \A i \in DOMAIN results :
       (results[i].err = NilErr /\ results[i].ast.Operation \in {OpFind, OpFindOne}
          /\ results[i].ast.SortClauses # <<>>) =>
          LET sorts == results[i].ast.SortClauses
          IN  /\ results[i].renderer = "mongodb" =>
                    /\ results[i].query.m["sort"] =
                          JObj([path \in SortPaths(sorts) |-> JNum(LastOrder(sorts, path))])
                    /\ Cardinality(SortPaths(sorts)) = Len(sorts) =>
                          \E ord \in Orders :
                             mongodb_Render([results[i].ast EXCEPT
                                                !.SortClauses = Reverse(sorts)], ord).res
                                = results[i].res
              /\ results[i].renderer = "couchdb" =>
                    results[i].query.m["sort"] =
                       JArr([k \in DOMAIN sorts |->
                               JObj(sorts[k].Field.Path :>
                                       JStr(Str(Direction(sorts[k].Order))))])
              /\ results[i].renderer = "firestore" =>
                    results[i].query.m["orderBy"] =
                       JArr([k \in DOMAIN sorts |->
                               JObj(("field" :> JStr(Str(sorts[k].Field.Path)))
                                    @@ ("direction" :>
                                          JStr(Str(Direction(sorts[k].Order)))))])

\* The MongoDB renderer rendered a Find with an ascending and then a
\* descending clause on one field: the sort holds the descending one alone.
C28_Witness ==
    \E i \in DOMAIN results :
       /\ results[i].renderer = "mongodb"
       /\ results[i].err = NilErr
       /\ results[i].ast.SortClauses =
             <<SortClause(F1, Ascending), SortClause(F1, Descending)>>
       /\ results[i].query.m["sort"] = JObj(F1.Path :> JNum(Descending))

InsertOperations == {OpInsert, OpInsertMany}

Unfiltered(ast) == [ast EXCEPT !.FilterClause = NilFilterItem]

\* C29: Filter and Where record no error on a fresh builder of any operation
\* and store the filter.  On Insert and InsertMany Build returns what it
\* returns without the filter, and every renderer that renders the insert
\* returns what it returns for the AST without the filter: each parameter it
\* requires is one of a document.
C29_FilterUnguarded ==
    /\ (ncalls = 1 /\ last.name \in {"Filter", "Where"}) =>
          /\ builder.err = NilErr
          /\ builder.ast.FilterClause = last.args[1]
    /\ (last.name = "Build" /\ built # <<>>
          /\ builder.ast.Operation \in InsertOperations) =>
          built[1] = Build([builder EXCEPT !.ast = Unfiltered(@)])
    /\ \A i \in DOMAIN results :
          (results[i].err = NilErr /\ results[i].ast.Operation \in InsertOperations
             /\ results[i].ast.FilterClause # NilFilterItem) =>
             /\ \E ord \in Orders :
                   LET r == RendererRender(results[i].renderer,
                                           Unfiltered(results[i].ast), ord)
                   IN  r.err = NilErr /\ r.res = results[i].res /\ r.query = results[i].query
             /\ \A k \in DOMAIN results[i].res[1].RequiredParams :
                   \E d \in DOMAIN results[i].ast.Documents :
                      \E f \in DOMAIN results[i].ast.Documents[d].Fields :
                         results[i].ast.Documents[d].Fields[f].Name =
                            results[i].res[1].RequiredParams[k]

\* The MongoDB renderer rendered an Insert that holds a filter: the document
\* has no filter and the parameter of the filter is not required.
C29_Witness ==
    \E i \in DOMAIN results :
       /\ results[i].renderer = "mongodb"
       /\ results[i].ast.Operation = OpInsert
       /\ results[i].ast.FilterClause = Gt(F2, P2)
       /\ results[i].err = NilErr
       /\ DOMAIN results[i].query.m = {"collection", "operation", "document"}
       /\ results[i].res[1].RequiredParams = <<P1.Name>>

-----------------------------------------------------------------------------
(* Claims about goroutines *)

AllDone == \A g \in DOMAIN procs : procs[g].pc = "done"

\* C23: nothing serialises two Filter calls on one Builder.  When both have
\* returned, the FilterClause is the AND group of the two filters only if one
\* call made its checks after the other had stored its filter; if both made
\* their checks on the fresh builder the FilterClause is one of the two
\* filters alone.
C23_ConcurrentFilterLosesOne ==
    (session = "race" /\ AllDone) =>
       LET a  == procs[1].arg
           b  == procs[2].arg
           fc == builder.ast.FilterClause
       IN  IF procs[1].branch = "then" /\ procs[2].branch = "then"
           THEN fc \in {a, b}
           ELSE /\ procs[1].branch = "else" =>
                      fc = FilterGroup(LogicAND, <<b, a>>)
                /\ procs[2].branch = "else" =>
                      fc = FilterGroup(LogicAND, <<a, b>>)

\* Two goroutines called Filter with different filters, both found the builder
\* without a filter, and the builder holds the first filter alone.
C23_Witness ==
    /\ session = "race" /\ AllDone
    /\ procs[1].arg = Eq(F1, P1)
    /\ procs[2].arg = Gt(F2, P2)
    /\ procs[1].branch = "then" /\ procs[2].branch = "then"
    /\ builder.ast.FilterClause = Eq(F1, P1)

\* What goroutine g made and returned is what a Render of the AST on its own
\* can return.
LoneResult(g) ==
    \E ord \in Orders :
       LET r == RendererRender(procs[g].renderer, direct[1], ord)
       IN  /\ results[procs[g].out].err = r.err
           /\ results[procs[g].out].res = r.res
           /\ procs[g].query = r.query
           /\ r.res # NilPtr => procs[g].params = r.res[1].RequiredParams

\* A goroutine that has not returned holds no parameter and no document; one
\* that has returned holds what a Render of the AST on its own can return.
OwnResults ==
    \A g \in DOMAIN procs :
       IF procs[g].pc = "done"
       THEN results[procs[g].out].ast = direct[1] /\ LoneResult(g)
       ELSE procs[g].params = <<>> /\ procs[g].query = JNull

====
